---- MODULE Spec2Model ----
(***************************************************************************)
(* Model of the infoviz-g17 browser application: the CSV loaders           *)
(* (lib/emissions.ts, lib/worldBank.ts), the share computation, the index  *)
(* page (routes/index.tsx) and the choropleth map page (routes/map.tsx,    *)
(* lib/vis/choroplethMap.ts).                                              *)
(*                                                                         *)
(* Conventions.                                                            *)
(*  - A JavaScript string is a sequence of one-character strings, so that  *)
(*    trim, slice and Number(...) are computed, not assumed.               *)
(*  - A JavaScript number is a record [k, v]: k = "num" (finite, value v), *)
(*    "nan", "inf" or "ninf".  Finite values are integers; the alphabet of *)
(*    the modelled cells has no decimal point or exponent.                 *)
(*  - A CSV cell that d3.csv did not produce (absent column) is undefined: *)
(*    [def |-> FALSE].                                                     *)
(***************************************************************************)
EXTENDS Integers, Sequences, FiniteSets, Bags, TLC

VARIABLES
    \* ---- loader harness (d3.csv result and what the loader returned)
    file,        \* "emissions" | "worldbank" | "none": which CSV was fetched
    columns,     \* the header of the CSV (rows.columns)
    rows,        \* the parsed rows, each a function columns -> string
    series,      \* the value the loader resolved with
    loaded,      \* TRUE once the loader has run
    \* ---- harness of sourceSharesForYear
    sharePoints, \* the points argument
    shareYear,   \* the year argument
    shares,      \* the returned SourceShare[]
    sharesDone,  \* TRUE once the function has been applied
    \* ---- index page (routes/index.tsx): React state
    emLoading, emissionsData, wbLoading, worldBankData,
    countryA, countryB,
    selectedYear,    \* number | null
    size,            \* useVisualizationSize(lineChartRef)
    barChartSize,    \* useVisualizationSize(barChartRef)
    \* ---- index page: effects whose dependencies changed in the last render
    prepickPending, drawPending, barPending,
    \* ---- index page: what the d3 code left in the two containers
    lineChartDom, barChartDom,
    crashed,         \* an effect threw: React unmounted the page
    firstResolved,   \* history: which fetch resolved first
    everDrawn,       \* history: a line chart has been drawn
    \* ---- map page (routes/map.tsx): React state
    mapEmLoading,    \* emLoading of MapPage
    mapEmissionsData,\* emissionsData of MapPage
    topology,        \* Topology | null
    mapSelectedYear, \* selectedYear of MapPage
    emissionType,
    mapSize,         \* useVisualizationSize(mapRef)
    mapDrawPending,  \* the draw effect's dependencies changed
    \* ---- map page: what choroplethMap left in the container
    mapDom, tooltip,
    hovered,         \* the path the pointer is over, 0 if none
    \* ---- harness of lineChart (lib/vis/lineChart.ts)
    chartArgs,       \* the parameters of the call
    chartOut,        \* the coordinates it computed
    chartDone,       \* TRUE once the function has been applied
    \* ---- harness of getIso3FromNumeric (lib/vis/choroplethMap.ts)
    isoArg,          \* the id passed
    isoOut,          \* what the function returned
    isoDone          \* TRUE once the function has been applied

varsLoad == <<file, columns, rows, series, loaded>>

varsShares == <<sharePoints, shareYear, shares, sharesDone>>

varsIndex ==
    <<emLoading, emissionsData, wbLoading, worldBankData, countryA, countryB,
      selectedYear, size, barChartSize, prepickPending, drawPending, barPending,
      lineChartDom, barChartDom, crashed, firstResolved, everDrawn>>

varsMap ==
    <<mapEmLoading, mapEmissionsData, topology, mapSelectedYear, emissionType,
      mapSize, mapDrawPending, mapDom, tooltip, hovered>>

varsChart == <<chartArgs, chartOut, chartDone>>

varsIso == <<isoArg, isoOut, isoDone>>

vars == <<varsLoad, varsShares, varsIndex, varsMap, varsChart, varsIso>>

\* what the steps of one harness leave alone
OutsideLoad == <<varsShares, varsIndex, varsMap, varsChart, varsIso>>

OutsideShares == <<varsLoad, varsIndex, varsMap, varsChart, varsIso>>

OutsideIndex == <<varsLoad, varsShares, varsMap, varsChart, varsIso>>

OutsideMap == <<varsLoad, varsShares, varsIndex, varsChart, varsIso>>

OutsideChart == <<varsLoad, varsShares, varsIndex, varsMap, varsIso>>

OutsideIso == <<varsLoad, varsShares, varsIndex, varsMap, varsChart>>

\* a harness that takes no part in the specification at hand
IdleLoad ==
    file = "none" /\ columns = {} /\ rows = <<>> /\ series = <<>> /\ loaded = FALSE

IdleIndex ==
    /\ emLoading = TRUE /\ emissionsData = <<>>
    /\ wbLoading = TRUE /\ worldBankData = <<>>
    /\ countryA = <<>> /\ countryB = <<>>
    /\ selectedYear = [k |-> "null", v |-> 0]
    /\ size = [width |-> 0, height |-> 0]
    /\ barChartSize = [width |-> 0, height |-> 0]
    /\ prepickPending = FALSE /\ drawPending = FALSE /\ barPending = FALSE
    /\ lineChartDom = <<>> /\ barChartDom = <<>>
    /\ crashed = FALSE /\ firstResolved = "none" /\ everDrawn = FALSE

IdleChart == chartArgs = <<>> /\ chartOut = <<>> /\ chartDone = FALSE

IdleIso == isoArg = <<>> /\ isoOut = <<>> /\ isoDone = FALSE

IdleMap ==
    /\ mapEmLoading = TRUE /\ mapEmissionsData = <<>>
    /\ topology = [k |-> "null", features |-> <<>>]
    /\ mapSelectedYear = [k |-> "num", v |-> 0] /\ emissionType = ""
    /\ mapSize = [width |-> 0, height |-> 0]
    /\ mapDrawPending = FALSE
    /\ mapDom = <<>> /\ tooltip = <<>> /\ hovered = 0

IdleShares ==
    sharePoints = <<>> /\ shareYear = [k |-> "num", v |-> 0] /\ shares = <<>> /\ sharesDone = FALSE

----------------------------------------------------------------------------
(* JavaScript primitives                                                   *)

Num(n) == [k |-> "num", v |-> n]

NaN == [k |-> "nan", v |-> 0]

PosInf == [k |-> "inf", v |-> 0]

NegInf == [k |-> "ninf", v |-> 0]

\* Number.isFinite
IsFinite(x) == x.k = "num"

\* ToBoolean of a number: 0 and NaN are falsy
Truthy(x) == ~(x.k = "nan") /\ ~(x.k = "num" /\ x.v = 0)

Undefined == [def |-> FALSE, s |-> <<>>]

Str(s) == [def |-> TRUE, s |-> s]

Digits == {"0", "1", "2", "3", "4", "5", "6", "7", "8", "9"}

DigitVal(c) ==
    CASE c = "0" -> 0 [] c = "1" -> 1 [] c = "2" -> 2 [] c = "3" -> 3
      [] c = "4" -> 4 [] c = "5" -> 5 [] c = "6" -> 6 [] c = "7" -> 7
      [] c = "8" -> 8 [] c = "9" -> 9

RECURSIVE DigitsValue(_)
DigitsValue(s) ==
    IF s = <<>> THEN 0
    ELSE DigitsValue(SubSeq(s, 1, Len(s) - 1)) * 10 + DigitVal(s[Len(s)])

RECURSIVE TrimStart(_)
TrimStart(s) ==
    IF s # <<>> /\ Head(s) = " " THEN TrimStart(Tail(s)) ELSE s

RECURSIVE TrimEnd(_)
TrimEnd(s) ==
    IF s # <<>> /\ s[Len(s)] = " " THEN TrimEnd(SubSeq(s, 1, Len(s) - 1)) ELSE s

\* String.prototype.trim
Trim(s) == TrimEnd(TrimStart(s))

\* String.prototype.slice(0, n)
Slice0(s, n) == SubSeq(s, 1, IF Len(s) < n THEN Len(s) ELSE n)

sInfinity == <<"I", "n", "f", "i", "n", "i", "t", "y">>

\* Number(string): StringToNumber on the trimmed text
ParseNumber(s) ==
    LET t == Trim(s) IN
    IF t = <<>> THEN Num(0)
    ELSE
      LET signed == Head(t) \in {"-", "+"}
          neg    == Head(t) = "-"
          body   == IF signed THEN Tail(t) ELSE t
      IN  IF body = sInfinity THEN (IF neg THEN NegInf ELSE PosInf)
          ELSE IF body # <<>> /\ \A i \in 1..Len(body) : body[i] \in Digits
               THEN Num(IF neg THEN 0 - DigitsValue(body) ELSE DigitsValue(body))
               ELSE NaN

\* r[col] for a d3.csv row: undefined when the file has no such column
Cell(r, col) == IF col \in DOMAIN r THEN Str(r[col]) ELSE Undefined

\* (v ?? "")
OrEmpty(v) == IF v.def THEN v.s ELSE <<>>

----------------------------------------------------------------------------
(* String.prototype.localeCompare on the modelled alphabet: letters compare *)
(* first without case (primary level), ties are broken by case with the     *)
(* lowercase letter first (tertiary level); a space sorts before letters.   *)

Lowers == <<"a", "b", "c", "d", "e", "f", "g", "h", "i", "j", "k", "l", "m",
            "n", "o", "p", "q", "r", "s", "t", "u", "v", "w", "x", "y", "z">>

Uppers == <<"A", "B", "C", "D", "E", "F", "G", "H", "I", "J", "K", "L", "M",
            "N", "O", "P", "Q", "R", "S", "T", "U", "V", "W", "X", "Y", "Z">>

IsUpper(c) == \E i \in 1..Len(Uppers) : Uppers[i] = c

PrimaryRank(c) ==
    IF \E i \in 1..Len(Lowers) : Lowers[i] = c
    THEN CHOOSE i \in 1..Len(Lowers) : Lowers[i] = c
    ELSE IF IsUpper(c) THEN CHOOSE i \in 1..Len(Uppers) : Uppers[i] = c
    ELSE 0

CaseRank(c) == IF IsUpper(c) THEN 1 ELSE 0

RECURSIVE LexCompare(_, _, _)
LexCompare(a, b, level) ==
    IF a = <<>> /\ b = <<>> THEN 0
    ELSE IF a = <<>> THEN -1
    ELSE IF b = <<>> THEN 1
    ELSE
      LET ra == IF level = 1 THEN PrimaryRank(Head(a)) ELSE CaseRank(Head(a))
          rb == IF level = 1 THEN PrimaryRank(Head(b)) ELSE CaseRank(Head(b))
      IN  IF ra < rb THEN -1
          ELSE IF ra > rb THEN 1
          ELSE LexCompare(Tail(a), Tail(b), level)

LocaleCompare(a, b) ==
    LET p == LexCompare(a, b, 1) IN IF p # 0 THEN p ELSE LexCompare(a, b, 3)

----------------------------------------------------------------------------
(* Array.prototype.sort (stable) with the comparators the loaders pass      *)

RECURSIVE InsertByYear(_, _)
InsertByYear(sorted, p) ==
    IF sorted = <<>> THEN <<p>>
    ELSE IF sorted[Len(sorted)].year.v - p.year.v <= 0
         THEN Append(sorted, p)
         ELSE Append(InsertByYear(SubSeq(sorted, 1, Len(sorted) - 1), p),
                     sorted[Len(sorted)])

RECURSIVE SortByYearFrom(_, _)
SortByYearFrom(done, todo) ==
    IF todo = <<>> THEN done
    ELSE SortByYearFrom(InsertByYear(done, Head(todo)), Tail(todo))

SortByYear_unsorted(points) == points

\* points.sort((a, b) => a.year - b.year)
SortByYear(points) == SortByYearFrom(<<>>, points)

RECURSIVE InsertByCountry(_, _)
InsertByCountry(sorted, s) ==
    IF sorted = <<>> THEN <<s>>
    ELSE IF LocaleCompare(sorted[Len(sorted)].country, s.country) <= 0
         THEN Append(sorted, s)
         ELSE Append(InsertByCountry(SubSeq(sorted, 1, Len(sorted) - 1), s),
                     sorted[Len(sorted)])

RECURSIVE SortByCountryFrom(_, _)
SortByCountryFrom(done, todo) ==
    IF todo = <<>> THEN done
    ELSE SortByCountryFrom(InsertByCountry(done, Head(todo)), Tail(todo))

\* series.sort((a, b) => a.country.localeCompare(b.country))
SortByCountry(ss) == SortByCountryFrom(<<>>, ss)

\* the keys of d3.group, in order of first occurrence (InternMap insertion order)
RECURSIVE GroupKeysFrom(_, _)
GroupKeysFrom(done, todo) ==
    IF todo = <<>> THEN done
    ELSE IF \E i \in 1..Len(done) : done[i] = Head(todo)
         THEN GroupKeysFrom(done, Tail(todo))
         ELSE GroupKeysFrom(Append(done, Head(todo)), Tail(todo))

GroupKeys(keys) == GroupKeysFrom(<<>>, keys)

----------------------------------------------------------------------------
(* lib/emissions.ts                                                        *)

cCountry == "Country"

cIso3 == "ISO 3166-1 alpha-3"

cYear == "Year"

cTotal == "Total"

cCoal == "Coal"

cOil == "Oil"

cGas == "Gas"

cCement == "Cement"

cFlaring == "Flaring"

cOther == "Other"

cPerCapita == "Per Capita"

toNum_unchecked(v) == IF v.def THEN ParseNumber(v.s) ELSE NaN

\* toNum: Number(v), with every non-finite result replaced by 0
toNum(v) ==
    LET n == IF v.def THEN ParseNumber(v.s) ELSE NaN
    IN  IF IsFinite(n) THEN n ELSE Num(0)

\* the callback of rows.map in loadEmissions; keep = FALSE stands for null
emCleanRow(r) ==
    LET iso3    == Trim(OrEmpty(Cell(r, cIso3)))
        country == Trim(OrEmpty(Cell(r, cCountry)))
        year    == toNum(Cell(r, cYear))
    IN  [keep    |-> ~(iso3 = <<>> \/ country = <<>> \/ ~Truthy(year)),
         iso3    |-> iso3,
         country |-> country,
         point   |-> [year      |-> year,
                      total     |-> toNum(Cell(r, cTotal)),
                      coal      |-> toNum(Cell(r, cCoal)),
                      oil       |-> toNum(Cell(r, cOil)),
                      gas       |-> toNum(Cell(r, cGas)),
                      cement    |-> toNum(Cell(r, cCement)),
                      flaring   |-> toNum(Cell(r, cFlaring)),
                      other     |-> toNum(Cell(r, cOther)),
                      perCapita |-> toNum(Cell(r, cPerCapita))]]

IsKept(d) == d.keep

\* rows.map(...).filter((d) => d !== null)
emCleaned(rws) == SelectSeq([i \in 1..Len(rws) |-> emCleanRow(rws[i])], IsKept)

PointsOf(arr) == [i \in 1..Len(arr) |-> arr[i].point]

emSeriesOf_lastName(cleaned, iso3) ==
    LET arr == SelectSeq(cleaned, LAMBDA d : d.iso3 = iso3)
    IN  [iso3    |-> iso3,
         country |-> IF Len(arr) > 0 THEN arr[Len(arr)].country ELSE iso3,
         points  |-> SortByYear(PointsOf(arr))]

\* one entry of d3.group(cleaned, d => d.iso3) turned into a CountrySeries
emSeriesOf(cleaned, iso3) ==
    LET arr == SelectSeq(cleaned, LAMBDA d : d.iso3 = iso3)
    IN  [iso3    |-> iso3,
         country |-> IF Len(arr) > 0 THEN arr[1].country ELSE iso3,
         points  |-> SortByYear(PointsOf(arr))]

loadEmissions(rws) ==
    LET cleaned == emCleaned(rws)
        keys    == GroupKeys([i \in 1..Len(cleaned) |-> cleaned[i].iso3])
    IN  SortByCountry([k \in 1..Len(keys) |-> emSeriesOf(cleaned, keys[k])])

----------------------------------------------------------------------------
(* lib/worldBank.ts                                                        *)

wCountry == "country"

wDate == "date"

wPopulation == "population"

wGdp == "GDP_current_US"

wCo2 == "CO2_emisions"

wRenewable == "renewvable_energy_consumption%"

wElectricity == "access_to_electricity%"

\* number | null
Null == [k |-> "null", v |-> 0]

sNA == <<"N", "A">>

sNaN == <<"N", "a", "N">>

\* toNumOrNull without the test for blank text: Number("") is 0
toNumOrNull_blankZero(v) ==
    IF ~v.def THEN Null
    ELSE LET n == ParseNumber(Trim(v.s)) IN IF IsFinite(n) THEN n ELSE Null

toNumOrNull(v) ==
    IF ~v.def THEN Null
    ELSE LET s == Trim(v.s) IN
         IF s = <<>> \/ s = sNA \/ s = sNaN THEN Null
         ELSE LET n == ParseNumber(s) IN IF IsFinite(n) THEN n ELSE Null

yearFromDate(v) ==
    LET s == Trim(OrEmpty(v)) IN
    IF s = <<>> THEN Null
    ELSE LET y == ParseNumber(Slice0(s, 4)) IN IF IsFinite(y) THEN y ELSE Null

\* !year for number | null
YearFalsy(y) == y.k = "null" \/ ~Truthy(y)

wbCleanRow(r) ==
    LET country == Trim(OrEmpty(Cell(r, wCountry)))
        year    == yearFromDate(Cell(r, wDate))
    IN  [keep    |-> ~(country = <<>> \/ YearFalsy(year)),
         country |-> country,
         point   |-> [year              |-> year,
                      population        |-> toNumOrNull(Cell(r, wPopulation)),
                      gdp               |-> toNumOrNull(Cell(r, wGdp)),
                      co2               |-> toNumOrNull(Cell(r, wCo2)),
                      renewableShare    |-> toNumOrNull(Cell(r, wRenewable)),
                      electricityAccess |-> toNumOrNull(Cell(r, wElectricity))]]

wbCleaned(rws) == SelectSeq([i \in 1..Len(rws) |-> wbCleanRow(rws[i])], IsKept)

\* the sanity check on the header: unknown format
wbUnknownFormat(cols) ==
    ~(wCountry \in cols) \/ ~(wDate \in cols)
        \/ (~(wGdp \in cols) /\ ~(wPopulation \in cols))

wbSeriesOf(cleaned, country) ==
    LET arr == SelectSeq(cleaned, LAMBDA d : d.country = country)
    IN  [country |-> country, points |-> SortByYear(PointsOf(arr))]

loadWorldBank(cols, rws) ==
    IF Len(rws) = 0 THEN <<>>
    ELSE IF wbUnknownFormat(cols) THEN <<>>
    ELSE
      LET cleaned == wbCleaned(rws)
          keys    == GroupKeys([i \in 1..Len(cleaned) |-> cleaned[i].country])
      IN  SortByCountry([k \in 1..Len(keys) |-> wbSeriesOf(cleaned, keys[k])])

----------------------------------------------------------------------------
(* Loader harness: the CSV text is an input; a bounded pool of rows covers  *)
(* well-formed rows, rows with blank or unparsable cells, and rows that     *)
(* differ only in white space or letter case.                               *)

\* longest CSV (number of data rows) the harness feeds to a loader
MaxRows == 3

EmRow(iso, country, year, total, coal, oil, gas, cement, flaring, other, pc) ==
    (cIso3 :> iso) @@ (cCountry :> country) @@ (cYear :> year)
      @@ (cTotal :> total) @@ (cCoal :> coal) @@ (cOil :> oil) @@ (cGas :> gas)
      @@ (cCement :> cement) @@ (cFlaring :> flaring) @@ (cOther :> other)
      @@ (cPerCapita :> pc)

EmRowPool == {
    EmRow(<<"D", "E", "U">>, <<"G", "e", "r", "m", "a", "n", "y">>, <<"2", "0", "2", "1">>,
          <<"6">>, <<"1">>, <<"2">>, <<"3">>,
          <<"0">>, <<"0">>, <<"0">>, <<"8">>),
    EmRow(<<" ", "D", "E", "U", " ">>, <<"D", "e", "u", "t", "s", "c", "h", "l", "a", "n", "d">>, <<" ", "1", "9", "5", "0", " ">>,
          <<>>, <<"x">>, <<"N", "a", "N">>, <<"I", "n", "f", "i", "n", "i", "t", "y">>,
          <<"-", "1">>, <<>>, <<" ">>, <<"2">>),
    EmRow(<<"F", "R", "A">>, <<"F", "r", "a", "n", "c", "e">>, <<"2", "0", "2", "0">>,
          <<"3">>, <<"1">>, <<"1">>, <<"0">>,
          <<"0">>, <<"0">>, <<"0">>, <<"5">>),
    EmRow(<<"F", "R", "A">>, <<"f", "r", "a", "n", "c", "e">>, <<"1", "9", "0", "0">>,
          <<"0">>, <<"0">>, <<"0">>, <<"0">>,
          <<"0">>, <<"0">>, <<"0">>, <<"0">>),
    EmRow(<<"W", "L", "D">>, <<"W", "o", "r", "l", "d">>, <<"2", "0", "2", "1">>,
          <<"9">>, <<"3">>, <<"3">>, <<"3">>,
          <<"0">>, <<"0">>, <<"0">>, <<"4">>),
    EmRow(<<>>, <<"G", "e", "r", "m", "a", "n", "y">>, <<"2", "0", "2", "1">>,
          <<"6">>, <<"1">>, <<"2">>, <<"3">>,
          <<"0">>, <<"0">>, <<"0">>, <<"8">>),
    EmRow(<<" ">>, <<"G", "e", "r", "m", "a", "n", "y">>, <<"2", "0", "2", "1">>,
          <<"6">>, <<"1">>, <<"2">>, <<"3">>,
          <<"0">>, <<"0">>, <<"0">>, <<"8">>),
    EmRow(<<"D", "E", "U">>, <<" ">>, <<"2", "0", "2", "1">>,
          <<"6">>, <<"1">>, <<"2">>, <<"3">>,
          <<"0">>, <<"0">>, <<"0">>, <<"8">>),
    EmRow(<<"D", "E", "U">>, <<"G", "e", "r", "m", "a", "n", "y">>, <<>>,
          <<"6">>, <<"1">>, <<"2">>, <<"3">>,
          <<"0">>, <<"0">>, <<"0">>, <<"8">>),
    EmRow(<<"D", "E", "U">>, <<"G", "e", "r", "m", "a", "n", "y">>, <<"a", "b", "c">>,
          <<"6">>, <<"1">>, <<"2">>, <<"3">>,
          <<"0">>, <<"0">>, <<"0">>, <<"8">>),
    EmRow(<<"D", "E", "U">>, <<"G", "e", "r", "m", "a", "n", "y">>, <<"0">>,
          <<"6">>, <<"1">>, <<"2">>, <<"3">>,
          <<"0">>, <<"0">>, <<"0">>, <<"8">>),
    EmRow(<<"D", "E", "U">>, <<"G", "e", "r", "m", "a", "n", "y">>, <<"I", "n", "f", "i", "n", "i", "t", "y">>,
          <<"6">>, <<"1">>, <<"2">>, <<"3">>,
          <<"0">>, <<"0">>, <<"0">>, <<"8">>) }

EmHeaderFull ==
    {cIso3, cCountry, cYear, cTotal, cCoal, cOil, cGas, cCement, cFlaring,
     cOther, cPerCapita}

\* headers of the emissions file: complete, without two value columns,
\* without the Year column
EmHeaders == {EmHeaderFull, EmHeaderFull \ {cOther, cPerCapita}, EmHeaderFull \ {cYear}}

WbRow(country, date, population, gdp, co2, renewable, electricity) ==
    (wCountry :> country) @@ (wDate :> date) @@ (wPopulation :> population)
      @@ (wGdp :> gdp) @@ (wCo2 :> co2) @@ (wRenewable :> renewable)
      @@ (wElectricity :> electricity)

WbRowPool == {
    WbRow(<<"G", "e", "r", "m", "a", "n", "y">>, <<"2", "0", "2", "1", "-", "0", "1", "-", "0", "1">>,
          <<"8", "3">>, <<"4">>, <<"7">>, <<"N", "A">>, <<>>),
    WbRow(<<"G", "e", "r", "m", "a", "n", "y", " ">>, <<"1", "9", "5", "0">>,
          <<"N", "a", "N">>, <<"x">>, <<"I", "n", "f", "i", "n", "i", "t", "y">>, <<"1">>, <<" ", "2", " ">>),
    WbRow(<<"F", "r", "a", "n", "c", "e">>, <<"2", "0", "2", "0", "-", "0", "1", "-", "0", "1">>,
          <<"6", "7">>, <<"3">>, <<>>, <<"-", "1">>, <<"N", "a", "N">>),
    WbRow(<<"f", "r", "a", "n", "c", "e">>, <<"2", "0">>,
          <<"1">>, <<"1">>, <<"1">>, <<"1">>, <<"1">>),
    WbRow(<<>>, <<"2", "0", "2", "1", "-", "0", "1", "-", "0", "1">>,
          <<"8", "3">>, <<"4">>, <<"7">>, <<"1">>, <<"1">>),
    WbRow(<<"G", "e", "r", "m", "a", "n", "y">>, <<>>,
          <<"8", "3">>, <<"4">>, <<"7">>, <<"1">>, <<"1">>),
    WbRow(<<"G", "e", "r", "m", "a", "n", "y">>, <<"a", "b", "c", "d", "-", "0", "1">>,
          <<"8", "3">>, <<"4">>, <<"7">>, <<"1">>, <<"1">>),
    WbRow(<<"G", "e", "r", "m", "a", "n", "y">>, <<"0", "0", "0", "0", "-", "0", "1", "-", "0", "1">>,
          <<"8", "3">>, <<"4">>, <<"7">>, <<"1">>, <<"1">>) }

WbHeaderFull ==
    {wCountry, wDate, wPopulation, wGdp, wCo2, wRenewable, wElectricity}

\* headers of the World Bank file: complete, without GDP, without GDP and
\* population (unknown format), without date (unknown format)
WbHeaders ==
    {WbHeaderFull, WbHeaderFull \ {wGdp}, WbHeaderFull \ {wGdp, wPopulation},
     WbHeaderFull \ {wDate}}

Restrict(r, cols) == [c \in cols |-> r[c]]

SeqsUpTo(S, n) == UNION {[1..m -> S] : m \in 0..n}

InitLoad ==
    /\ file \in {"emissions", "worldbank"}
    /\ columns \in (IF file = "emissions" THEN EmHeaders ELSE WbHeaders)
    /\ \E rs \in SeqsUpTo(IF file = "emissions" THEN EmRowPool ELSE WbRowPool, MaxRows) :
          rows = [i \in 1..Len(rs) |-> Restrict(rs[i], columns)]
    /\ series = <<>>
    /\ loaded = FALSE
    /\ IdleShares
    /\ IdleIndex
    /\ IdleMap
    /\ IdleChart /\ IdleIso

\* the promise of loadEmissions resolves
LoadEmissions ==
    /\ file = "emissions"
    /\ ~loaded
    /\ series' = loadEmissions(rows)
    /\ loaded' = TRUE
    /\ UNCHANGED <<file, columns, rows, OutsideLoad>>

\* the promise of loadWorldBank resolves
LoadWorldBank ==
    /\ file = "worldbank"
    /\ ~loaded
    /\ series' = loadWorldBank(columns, rows)
    /\ loaded' = TRUE
    /\ UNCHANGED <<file, columns, rows, OutsideLoad>>

NextLoad == LoadEmissions \/ LoadWorldBank

SpecLoad == InitLoad /\ [][NextLoad]_vars

----------------------------------------------------------------------------
(* Properties of the loaders (checked under SpecLoad)                      *)

Range(s) == {s[i] : i \in 1..Len(s)}

SeqToBag(s) == [x \in Range(s) |-> Cardinality({i \in 1..Len(s) : s[i] = x})]

RECURSIVE TotalPoints(_)
TotalPoints(ss) ==
    IF ss = <<>> THEN 0 ELSE Len(Head(ss).points) + TotalPoints(Tail(ss))

\* a cell that is absent or holds only white space
BlankCell(c) == ~c.def \/ Trim(c.s) = <<>>

\* a cell whose text reads as a finite number
NumericCell(c) == c.def /\ IsFinite(ParseNumber(c.s))

\* the value expected of a numeric field: the cell's number, 0 when the cell
\* is missing or not numeric
ExpectedValue(c) == IF NumericCell(c) THEN ParseNumber(c.s) ELSE Num(0)

\* a row the emissions loader is expected to keep
EmRowGood(r) ==
    /\ ~BlankCell(Cell(r, cIso3))
    /\ ~BlankCell(Cell(r, cCountry))
    /\ NumericCell(Cell(r, cYear))
    /\ ParseNumber(Cell(r, cYear).s).v # 0

ExpectedEmPoint(r) ==
    [year      |-> ExpectedValue(Cell(r, cYear)),
     total     |-> ExpectedValue(Cell(r, cTotal)),
     coal      |-> ExpectedValue(Cell(r, cCoal)),
     oil       |-> ExpectedValue(Cell(r, cOil)),
     gas       |-> ExpectedValue(Cell(r, cGas)),
     cement    |-> ExpectedValue(Cell(r, cCement)),
     flaring   |-> ExpectedValue(Cell(r, cFlaring)),
     other     |-> ExpectedValue(Cell(r, cOther)),
     perCapita |-> ExpectedValue(Cell(r, cPerCapita))]

EmValueFields ==
    {"total", "coal", "oil", "gas", "cement", "flaring", "other", "perCapita"}

\* C1: loadEmissions drops exactly the rows whose ISO3 code or country name is
\* empty (after trimming) or whose Year is missing, not a finite number or 0:
\* the result holds one point per other row, with the row's values (0 for a
\* missing or non-numeric cell), under the row's ISO3 code; every series has a
\* non-empty iso3 and country, every year is finite and non-zero and every
\* other field is finite.
C1_EmissionsRowFilter ==
    (loaded /\ file = "emissions") =>
      /\ TotalPoints(series)
           = Cardinality({i \in 1..Len(rows) : EmRowGood(rows[i])})
      /\ \A i \in 1..Len(rows) :
            EmRowGood(rows[i]) =>
              \E k \in 1..Len(series) :
                /\ series[k].iso3 = Trim(rows[i][cIso3])
                /\ \E j \in 1..Len(series[k].points) :
                      series[k].points[j] = ExpectedEmPoint(rows[i])
      /\ \A k \in 1..Len(series) :
            /\ series[k].iso3 # <<>>
            /\ series[k].country # <<>>
            /\ \A j \in 1..Len(series[k].points) :
                  /\ IsFinite(series[k].points[j].year)
                  /\ series[k].points[j].year.v # 0
                  /\ \A f \in EmValueFields : IsFinite(series[k].points[j][f])

\* C1 witness: a file with a dropped row and a kept row whose non-numeric
\* cell became 0 has been loaded.
C1_Witness ==
    /\ loaded /\ file = "emissions"
    /\ \E i \in 1..Len(rows) : ~EmRowGood(rows[i])
    /\ \E i \in 1..Len(rows) :
          /\ EmRowGood(rows[i])
          /\ cGas \in DOMAIN rows[i] /\ rows[i][cGas] = sInfinity
    /\ \E k \in 1..Len(series) : \E j \in 1..Len(series[k].points) :
          series[k].points[j].gas = Num(0) /\ series[k].points[j].total = Num(0)

\* number | null expected of an indicator cell
ExpectedIndicator(c) ==
    IF ~c.def \/ Trim(c.s) = <<>> \/ Trim(c.s) = sNA \/ Trim(c.s) = sNaN
         \/ ~IsFinite(ParseNumber(c.s))
    THEN Null ELSE ParseNumber(c.s)

\* the year read from the first four characters of the (trimmed) date
DateYear(c) == ParseNumber(Slice0(Trim(OrEmpty(c)), 4))

\* a row the World Bank loader is expected to keep
WbRowGood(r) ==
    /\ ~BlankCell(Cell(r, wCountry))
    /\ ~BlankCell(Cell(r, wDate))
    /\ IsFinite(DateYear(Cell(r, wDate)))
    /\ DateYear(Cell(r, wDate)).v # 0

ExpectedWbPoint(r) ==
    [year              |-> DateYear(Cell(r, wDate)),
     population        |-> ExpectedIndicator(Cell(r, wPopulation)),
     gdp               |-> ExpectedIndicator(Cell(r, wGdp)),
     co2               |-> ExpectedIndicator(Cell(r, wCo2)),
     renewableShare    |-> ExpectedIndicator(Cell(r, wRenewable)),
     electricityAccess |-> ExpectedIndicator(Cell(r, wElectricity))]

\* every expected row is in the result with its expected point, and nothing else
WbRowsKept ==
    /\ TotalPoints(series)
         = Cardinality({i \in 1..Len(rows) : WbRowGood(rows[i])})
    /\ \A i \in 1..Len(rows) :
          WbRowGood(rows[i]) =>
            \E k \in 1..Len(series) :
              /\ series[k].country = Trim(rows[i][wCountry])
              /\ \E j \in 1..Len(series[k].points) :
                    series[k].points[j] = ExpectedWbPoint(rows[i])

\* C2 (as stated): loadWorldBank drops a row only when its country is empty or
\* no non-zero year can be read from its date; an absent, empty, "NA", "NaN"
\* or non-finite indicator cell becomes null and the row is kept.
C2_Original == (loaded /\ file = "worldbank") => WbRowsKept

\* C2 (amended): the same, for a file whose header has the country and date
\* columns and at least one of GDP_current_US and population; for any other
\* header loadWorldBank returns no series at all.
C2_WorldBankRowFilter ==
    (loaded /\ file = "worldbank") =>
      IF {wCountry, wDate} \subseteq columns
           /\ (wGdp \in columns \/ wPopulation \in columns)
      THEN WbRowsKept
      ELSE series = <<>>

\* C2 witness: a known-format file was loaded in which a kept row has null
\* indicators and another row was dropped.
C2_Witness ==
    /\ loaded /\ file = "worldbank"
    /\ wGdp \notin columns /\ wPopulation \in columns
    /\ \E i \in 1..Len(rows) : ~WbRowGood(rows[i])
    /\ \E k \in 1..Len(series) : \E j \in 1..Len(series[k].points) :
          /\ series[k].points[j].gdp = Null
          /\ series[k].points[j].population = Null
          /\ series[k].points[j].renewableShare = Num(1)

\* C3: whatever the order of the input rows, in the result of loadEmissions
\* and of loadWorldBank the points of each series are in non-decreasing year
\* order and the series are in localeCompare order of their country names.
C3_SortedOutput ==
    loaded =>
      /\ \A k \in 1..Len(series) :
            \A i, j \in 1..Len(series[k].points) :
               i < j => series[k].points[i].year.v <= series[k].points[j].year.v
      /\ \A i, j \in 1..Len(series) :
            i < j => LocaleCompare(series[i].country, series[j].country) <= 0

\* C3 witness: an emissions file whose kept rows come in decreasing year order
\* within a code and in decreasing country order has been loaded.
C3_Witness ==
    /\ loaded /\ file = "emissions" /\ Len(series) >= 2
    /\ LET cleaned == emCleaned(rows) IN
         /\ \E i, j \in 1..Len(cleaned) :
               /\ i < j /\ cleaned[i].iso3 = cleaned[j].iso3
               /\ cleaned[i].point.year.v > cleaned[j].point.year.v
         /\ \E i, j \in 1..Len(cleaned) :
               i < j /\ LocaleCompare(cleaned[i].country, cleaned[j].country) > 0

\* the rows a loader kept, in input order
KeptRows ==
    IF file = "emissions" THEN emCleaned(rows)
    ELSE IF Len(rows) = 0 \/ wbUnknownFormat(columns) THEN <<>>
    ELSE wbCleaned(rows)

KeyOf(d) == IF file = "emissions" THEN d.iso3 ELSE d.country

SeriesKey(s) == IF file = "emissions" THEN s.iso3 ELSE s.country

\* C4: the loaders group the kept rows by key (ISO3 code for loadEmissions,
\* country name for loadWorldBank): every key of a kept row has exactly one
\* series, every series has the key of a kept row, the series holds exactly
\* the points of the kept rows with its key (as a multiset), and the country
\* name of an emissions series is the name on the first kept row of its code.
C4_GroupedByKey ==
    loaded =>
      LET kept == KeptRows IN
      /\ \A i \in 1..Len(kept) :
            Cardinality({k \in 1..Len(series) : SeriesKey(series[k]) = KeyOf(kept[i])}) = 1
      /\ \A k \in 1..Len(series) :
            LET mine == SelectSeq(kept, LAMBDA d : KeyOf(d) = SeriesKey(series[k])) IN
            /\ mine # <<>>
            /\ SeqToBag(series[k].points) = SeqToBag(PointsOf(mine))
            /\ Len(series[k].points) = Len(mine)
            /\ series[k].country = mine[1].country

\* C4 witness: an emissions file with two codes, one of them on two kept rows
\* that carry different country names, has been loaded.
C4_Witness ==
    /\ loaded /\ file = "emissions" /\ Len(series) = 2
    /\ LET kept == emCleaned(rows) IN
         \E i, j \in 1..Len(kept) :
            /\ i < j /\ kept[i].iso3 = kept[j].iso3
            /\ kept[i].country # kept[j].country

----------------------------------------------------------------------------
(* lib/emissions.ts: sourceSharesForYear.  A share is the exact quotient    *)
(* value / total, kept as a fraction [n, d] with d > 0 (floating-point      *)
(* rounding is not modelled).                                               *)

RECURSIVE GCD(_, _)
GCD(a, b) == IF b = 0 THEN a ELSE GCD(b, a % b)

Abs(n) == IF n < 0 THEN 0 - n ELSE n

\* the fraction n / d (d > 0) in lowest terms
Rat(n, d) == LET g == GCD(Abs(n), d) IN [n |-> n \div g, d |-> d \div g]

RatAdd(a, b) == Rat(a.n * b.d + b.n * a.d, a.d * b.d)

\* a / b for b > 0
RatDiv(a, b) == Rat(a.n * b.d, a.d * b.n)

RatEq(a, b) == a.n * b.d = b.n * a.d

RECURSIVE SumShare(_)
\* shares.reduce((s, d) => s + d.share, 0)
SumShare(ss) ==
    IF ss = <<>> THEN Rat(0, 1) ELSE RatAdd(Head(ss).share, SumShare(Tail(ss)))

RECURSIVE SumValue(_)
\* entries.reduce((s, e) => s + e.value, 0)
SumValue(es) ==
    IF es = <<>> THEN 0 ELSE Head(es).value.v + SumValue(Tail(es))

\* points.find((x) => x.year === year): index of the first match, 0 if none
FindYear(points, year) ==
    IF \E i \in 1..Len(points) : points[i].year = year
    THEN CHOOSE i \in 1..Len(points) :
            /\ points[i].year = year
            /\ \A j \in 1..(i - 1) : points[j].year # year
    ELSE 0

ShareEntries(p) ==
    << [source |-> "Coal",    value |-> p.coal],
       [source |-> "Oil",     value |-> p.oil],
       [source |-> "Gas",     value |-> p.gas],
       [source |-> "Cement",  value |-> p.cement],
       [source |-> "Flaring", value |-> p.flaring],
       [source |-> "Other",   value |-> p.other] >>

\* sourceSharesForYear dividing by the sum of the sources, whatever p.total is
sourceSharesForYear_ignoreTotal(points, year) ==
    LET i == FindYear(points, year) IN
    IF i = 0 THEN <<>>
    ELSE
      LET entries == ShareEntries(points[i])
          total   == SumValue(entries)
      IN  [e \in 1..Len(entries) |->
             [source |-> entries[e].source,
              value  |-> entries[e].value,
              share  |-> IF total > 0 THEN Rat(entries[e].value.v, total)
                         ELSE Rat(0, 1)]]

sourceSharesForYear(points, year) ==
    LET i == FindYear(points, year) IN
    IF i = 0 THEN <<>>
    ELSE
      LET p       == points[i]
          entries == ShareEntries(p)
          total   == IF Truthy(p.total) THEN p.total.v ELSE SumValue(entries)
      IN  [e \in 1..Len(entries) |->
             [source |-> entries[e].source,
              value  |-> entries[e].value,
              share  |-> IF total > 0 THEN Rat(entries[e].value.v, total)
                         ELSE Rat(0, 1)]]

----------------------------------------------------------------------------
(* Harness of sourceSharesForYear: a list of one or two points and a year   *)

\* largest value of one emission source in the harness
MaxShareValue == 1

ShareYears == {2020, 2021}

SourceFields == {"coal", "oil", "gas", "cement", "flaring", "other"}

SharePoint(y, t, c) ==
    [year |-> Num(y), total |-> Num(t), coal |-> Num(c["coal"]),
     oil |-> Num(c["oil"]), gas |-> Num(c["gas"]), cement |-> Num(c["cement"]),
     flaring |-> Num(c["flaring"]), other |-> Num(c["other"]),
     perCapita |-> Num(1)]

SumOfSources(c) ==
    c["coal"] + c["oil"] + c["gas"] + c["cement"] + c["flaring"] + c["other"]

\* points whose total is zero (a missing cell), the sum of the sources, or
\* larger than it
SharePointPool ==
    {SharePoint(y, SumOfSources(c) * scale + extra, c) :
        y \in ShareYears,
        scale \in {0, 1},
        extra \in {0, 1},
        c \in [SourceFields -> 0..MaxShareValue]}

\* points with a negative total, and an earlier point of a list
ShareOddPool ==
    {SharePoint(y, -1, [f \in SourceFields |-> IF f = "oil" THEN o ELSE 0]) :
        y \in ShareYears, o \in {0, 2}}

InitShares ==
    /\ sharePoints \in {<<p>> : p \in SharePointPool}
                          \cup {<<q, p>> : q \in ShareOddPool, p \in SharePointPool}
    /\ shareYear \in {Num(y) : y \in ShareYears}
    /\ shares = <<>>
    /\ sharesDone = FALSE
    /\ IdleLoad
    /\ IdleIndex
    /\ IdleMap
    /\ IdleChart /\ IdleIso

ApplyShares ==
    /\ ~sharesDone
    /\ shares' = sourceSharesForYear(sharePoints, shareYear)
    /\ sharesDone' = TRUE
    /\ UNCHANGED <<sharePoints, shareYear, OutsideShares>>

NextShares == ApplyShares

SpecShares == InitShares /\ [][NextShares]_vars

\* the point sourceSharesForYear reads: the first one of the requested year
SharesPoint == sharePoints[FindYear(sharePoints, shareYear)]

SharesSumToOne == LET s == SumShare(shares) IN s.n = s.d

\* C5 (as stated): whenever the list has a point for the year, the six shares
\* returned by sourceSharesForYear sum to 1.
C5_Original ==
    (sharesDone /\ FindYear(sharePoints, shareYear) # 0) =>
        Len(shares) = 6 /\ SharesSumToOne

\* C5 (amended): whenever the list has a point for the year, six shares are
\* returned; with T the point's total when that is non-zero and the sum of
\* its six source values otherwise, the shares sum to (sum of the six
\* values) / T when T > 0 and are all 0 when T <= 0; so they sum to 1 exactly
\* when T > 0 and T equals the sum of the six source values.
C5_SharesSum ==
    (sharesDone /\ FindYear(sharePoints, shareYear) # 0) =>
      LET p == SharesPoint
          s == p.coal.v + p.oil.v + p.gas.v + p.cement.v + p.flaring.v + p.other.v
          T == IF p.total.v # 0 THEN p.total.v ELSE s
      IN  /\ Len(shares) = 6
          /\ IF T > 0 THEN RatEq(SumShare(shares), Rat(s, T))
                      ELSE \A e \in 1..6 : shares[e].share.n = 0
          /\ SharesSumToOne <=> (T > 0 /\ s = T)

\* C5 witness: the function was applied to a two-point list holding the year,
\* the point's total differs from the sum of its sources and is positive.
C5_Witness ==
    /\ sharesDone /\ Len(sharePoints) = 2 /\ Len(shares) = 6
    /\ sharePoints[1].year # shareYear
    /\ sharePoints[2].total.v = 3 /\ sharePoints[2].coal.v = 1
    /\ sharePoints[2].oil.v = 1
    /\ ~SharesSumToOne

----------------------------------------------------------------------------
(* lib/math.ts                                                             *)

RECURSIVE maxFold(_, _, _)
maxFold(acc, rest, field) ==
    IF rest = <<>> THEN acc
    ELSE maxFold(IF acc[field].v > Head(rest)[field].v THEN acc ELSE Head(rest),
                 Tail(rest), field)

RECURSIVE minFold(_, _, _)
minFold(acc, rest, field) ==
    IF rest = <<>> THEN acc
    ELSE minFold(IF acc[field].v <= Head(rest)[field].v THEN acc ELSE Head(rest),
                 Tail(rest), field)

\* Array.prototype.reduce without an initial value throws a TypeError on an
\* empty array
ReduceThrows(data) == Len(data) = 0

\* maxElement(data, (p) => p[field]), for a non-empty array
maxElement(data, field) == maxFold(Head(data), Tail(data), field)

\* minElement(data, (p) => p[field]), for a non-empty array
minElement(data, field) == minFold(Head(data), Tail(data), field)

----------------------------------------------------------------------------
(* routes/index.tsx                                                        *)

\* MIN_YEAR in processEmissionsCountry
MIN_YEAR == 1950

\* preferred in the initial-year effect
PreferredYear == 2021

\* emissionsData.find((d) => d.iso3 === iso3): index of the first match, 0 if none
FindIso(data, iso3) ==
    IF \E i \in 1..Len(data) : data[i].iso3 = iso3
    THEN CHOOSE i \in 1..Len(data) :
            /\ data[i].iso3 = iso3
            /\ \A j \in 1..(i - 1) : data[j].iso3 # iso3
    ELSE 0

EmptyRange == [start |-> Num(0), end |-> Num(0)]

\* processEmissionsCountry; threw = TRUE stands for the TypeError of reduce
processEmissionsCountry(data, iso3, selYear) ==
    LET c == FindIso(data, iso3) IN
    IF c = 0
    THEN [threw |-> FALSE, points |-> <<>>, range |-> EmptyRange, domain |-> EmptyRange]
    ELSE
      LET country   == data[c]
          pointsRaw == SelectSeq(country.points,
                          LAMBDA q : q.year.v >= MIN_YEAR /\ IsFinite(q.perCapita))
          points    == [i \in 1..Len(pointsRaw) |->
                          [x |-> pointsRaw[i].year,
                           y |-> pointsRaw[i].perCapita,
                           customData |->
                             [iso3      |-> iso3,
                              name      |-> country.country,
                              year      |-> pointsRaw[i].year,
                              co2       |-> pointsRaw[i].total,
                              perCapita |-> pointsRaw[i].perCapita,
                              selected  |-> selYear.k # "null"
                                              /\ pointsRaw[i].year = selYear]]]
      IN  IF ReduceThrows(pointsRaw)
          THEN [threw |-> TRUE, points |-> points, range |-> EmptyRange,
                domain |-> EmptyRange]
          ELSE [threw  |-> FALSE,
                points |-> points,
                range  |-> [start |-> minElement(pointsRaw, "year").year,
                            end   |-> maxElement(pointsRaw, "year").year],
                domain |-> [start |-> Num(0),
                            end   |-> maxElement(pointsRaw, "perCapita").perCapita]]

\* x || Infinity
OrInfinity(x) == IF Truthy(x) THEN x ELSE PosInf

\* Math.min on finite numbers and Infinity
MathMin(a, b) ==
    IF a.k = "inf" THEN b
    ELSE IF b.k = "inf" THEN a
    ELSE IF a.v <= b.v THEN a ELSE b

\* Math.max on finite numbers
MathMax(a, b) == IF a.v >= b.v THEN a ELSE b

RECURSIVE InsertByX(_, _)
InsertByX(sorted, p) ==
    IF sorted = <<>> THEN <<p>>
    ELSE IF sorted[Len(sorted)].x.v - p.x.v <= 0
         THEN Append(sorted, p)
         ELSE Append(InsertByX(SubSeq(sorted, 1, Len(sorted) - 1), p),
                     sorted[Len(sorted)])

RECURSIVE SortByXFrom(_, _)
SortByXFrom(done, todo) ==
    IF todo = <<>> THEN done
    ELSE SortByXFrom(InsertByX(done, Head(todo)), Tail(todo))

\* line.data.sort((a, b) => a.x - b.x) in drawLine
SortByX(points) == SortByXFrom(<<>>, points)

MarkerOf_neverSelected(point, baseSize, shape) ==
    [shape |-> shape, a |-> Rat(baseSize, 1), stroke |-> "none",
     strokeWidth |-> 0, point |-> point]

\* the marker drawLine appends for a point: a rect of side a or a circle of
\* radius a, with a = baseSize * 1.6 and an outline when the point is selected
MarkerOf(point, baseSize, shape) ==
    LET isSelected == point.customData.selected IN
    [shape       |-> shape,
     a           |-> IF isSelected THEN Rat(baseSize * 16, 10) ELSE Rat(baseSize, 1),
     stroke      |-> IF isSelected THEN "var(--color-zinc-100)" ELSE "none",
     strokeWidth |-> IF isSelected THEN 2 ELSE 0,
     point       |-> point]

\* the markers of one line, in the order drawLine appends them
MarkersOf(points, baseSize, shape) ==
    LET sorted == SortByX(points)
    IN  [i \in 1..Len(sorted) |-> MarkerOf(sorted[i], baseSize, shape)]

NoLineChart ==
    [kind |-> "none", a |-> <<>>, b |-> <<>>, year |-> Null, w |-> 0, h |-> 0,
     xr |-> EmptyRange, yr |-> EmptyRange, lines |-> <<>>, markers |-> <<>>]

\* the container after the draw effect ran its body with a processed pair of
\* countries: an svg of the container's size and, unless both lines are
\* empty, the chart of the two lines with shared axes
drawEmissionsComparisonChart(A, B, a, b, year, sz) ==
    IF Len(A.points) = 0 /\ Len(B.points) = 0
    THEN [NoLineChart EXCEPT !.kind = "svg", !.a = a, !.b = b, !.year = year,
                             !.w = sz.width, !.h = sz.height]
    ELSE [kind  |-> "chart", a |-> a, b |-> b, year |-> year,
          w     |-> sz.width, h |-> sz.height,
          xr    |-> [start |-> MathMin(OrInfinity(A.range.start),
                                       OrInfinity(B.range.start)),
                     end   |-> MathMax(A.range.end, B.range.end)],
          yr    |-> [start |-> Num(0),
                     end   |-> MathMax(A.domain.end, B.domain.end)],
          lines |-> <<SortByX(A.points), SortByX(B.points)>>,
          markers |-> <<MarkersOf(A.points, 8, "square"),
                        MarkersOf(B.points, 6, "circle")>>]

DrawGuard_ignoreWorldBank ==
    /\ size.width # 0 /\ size.height # 0
    /\ ~emLoading

\* the early returns of the draw effect (the ref is set once mounted)
DrawGuard ==
    /\ size.width # 0 /\ size.height # 0
    /\ ~(emLoading \/ wbLoading)

\* getShares in the bar chart effect
getShares(data, iso3, year) ==
    LET c == FindIso(data, iso3) IN
    IF c = 0 THEN <<>>
    ELSE
      LET sh  == sourceSharesForYear(data[c].points, year)
          sum == SumShare(sh)
      IN  IF sum.n <= 0 THEN <<>>
          ELSE [i \in 1..Len(sh) |->
                  [sh[i] EXCEPT !.share = RatDiv(sh[i].share, sum)]]

RECURSIVE StackFrom(_, _)
\* drawStack: one rect per share, from the accumulator to accumulator + share
StackFrom(acc, sh) ==
    IF sh = <<>> THEN <<>>
    ELSE <<[source |-> Head(sh).source, from |-> acc,
            to |-> RatAdd(acc, Head(sh).share)]>>
           \o StackFrom(RatAdd(acc, Head(sh).share), Tail(sh))

drawStack(sh) == StackFrom(Rat(0, 1), sh)

BarShowsMessage_either(sharesA, sharesB) == Len(sharesA) = 0 \/ Len(sharesB) = 0

\* if (sharesA.length === 0 && sharesB.length === 0)
BarShowsMessage(sharesA, sharesB) == Len(sharesA) = 0 /\ Len(sharesB) = 0

NoBarChart ==
    [kind |-> "none", a |-> <<>>, b |-> <<>>, year |-> Null, message |-> "",
     stackA |-> <<>>, stackB |-> <<>>]

\* the bar chart container after the effect ran its body
drawBarChart(data, a, b, year) ==
    LET sharesA == getShares(data, a, year)
        sharesB == getShares(data, b, year)
    IN  IF BarShowsMessage(sharesA, sharesB)
        THEN [NoBarChart EXCEPT !.kind = "message", !.a = a, !.b = b,
                                !.year = year,
                                !.message = "No data for selected year."]
        ELSE [kind |-> "bars", a |-> a, b |-> b, year |-> year, message |-> "",
              stackA |-> drawStack(sharesA), stackB |-> drawStack(sharesB)]

\* Math.max(...years), for a non-empty list
RECURSIVE MaxYear(_)
MaxYear(years) ==
    IF Len(years) = 1 THEN Head(years)
    ELSE MathMax(Head(years), MaxYear(Tail(years)))

YearsOf(data, iso3) ==
    LET c == FindIso(data, iso3) IN
    IF c = 0 THEN <<>> ELSE [i \in 1..Len(data[c].points) |-> data[c].points[i].year]

prepickYear_noCommon(data, a, b) ==
    LET yearsA == YearsOf(data, a)
        yearsB == YearsOf(data, b)
    IN  IF Num(PreferredYear) \in Range(yearsA) /\ Num(PreferredYear) \in Range(yearsB)
        THEN Num(PreferredYear)
        ELSE IF Len(yearsA) > 0 THEN MaxYear(yearsA)
        ELSE IF Len(yearsB) > 0 THEN MaxYear(yearsB)
        ELSE Null

\* the year the initial-year effect selects; null when it selects none
prepickYear(data, a, b) ==
    LET yearsA == YearsOf(data, a)
        yearsB == YearsOf(data, b)
        common == SelectSeq(yearsA, LAMBDA y : y \in Range(yearsB))
    IN  IF Num(PreferredYear) \in Range(yearsA) /\ Num(PreferredYear) \in Range(yearsB)
        THEN Num(PreferredYear)
        ELSE IF Len(common) > 0 THEN MaxYear(common)
        ELSE IF Len(yearsA) > 0 THEN MaxYear(yearsA)
        ELSE IF Len(yearsB) > 0 THEN MaxYear(yearsB)
        ELSE Null

----------------------------------------------------------------------------
(* The index page as a state machine.  An event (fetch resolution, resize     *)
(* observation, select change, click on a chart point) updates the React     *)
(* state and marks the effects whose dependency arrays name what changed.    *)
(* React flushes the effects of a render before it renders again, so events  *)
(* are taken when no effect is marked, and the marked effects run one after  *)
(* the other.  A state update made by the initial-year effect is seen by the *)
(* other effects only in the next render: that effect is therefore taken     *)
(* last in a flush, and marks all three again when it selects a year.        *)

rowDEU2021 ==
    EmRow(<<"D", "E", "U">>, <<"G", "e", "r", "m", "a", "n", "y">>, <<"2", "0", "2", "1">>,
          <<"6">>, <<"1">>, <<"2">>, <<"3">>,
          <<"0">>, <<"0">>, <<"0">>, <<"8">>)

rowDEU1950 ==
    EmRow(<<" ", "D", "E", "U", " ">>, <<"D", "e", "u", "t", "s", "c", "h", "l", "a", "n", "d">>, <<" ", "1", "9", "5", "0", " ">>,
          <<>>, <<"x">>, <<"N", "a", "N">>, <<"I", "n", "f", "i", "n", "i", "t", "y">>,
          <<"-", "1">>, <<>>, <<" ">>, <<"2">>)

rowFRA2020 ==
    EmRow(<<"F", "R", "A">>, <<"F", "r", "a", "n", "c", "e">>, <<"2", "0", "2", "0">>,
          <<"3">>, <<"1">>, <<"1">>, <<"0">>,
          <<"0">>, <<"0">>, <<"0">>, <<"5">>)

rowFRA2021 ==
    EmRow(<<"F", "R", "A">>, <<"F", "r", "a", "n", "c", "e">>, <<"2", "0", "2", "1">>,
          <<"4">>, <<"2">>, <<"1">>, <<"1">>,
          <<"0">>, <<"0">>, <<"0">>, <<"6">>)

rowFRA1900 ==
    EmRow(<<"F", "R", "A">>, <<"f", "r", "a", "n", "c", "e">>, <<"1", "9", "0", "0">>,
          <<"0">>, <<"0">>, <<"0">>, <<"0">>,
          <<"0">>, <<"0">>, <<"0">>, <<"0">>)

rowATA1900 ==
    EmRow(<<"A", "T", "A">>, <<"A", "n", "t", "a", "r", "c", "t", "i", "c", "a">>, <<"1", "9", "0", "0">>,
          <<"0">>, <<"0">>, <<"0">>, <<"0">>,
          <<"0">>, <<"0">>, <<"0">>, <<"0">>)

rowWLD2021 ==
    EmRow(<<"W", "L", "D">>, <<"W", "o", "r", "l", "d">>, <<"2", "0", "2", "1">>,
          <<"9">>, <<"3">>, <<"3">>, <<"3">>,
          <<"0">>, <<"0">>, <<"0">>, <<"4">>)

rowWLD2020 ==
    EmRow(<<"W", "L", "D">>, <<"W", "o", "r", "l", "d">>, <<"2", "0", "2", "0">>,
          <<"0">>, <<"0">>, <<"0">>, <<"0">>,
          <<"0">>, <<"0">>, <<"0">>, <<"1">>)

rowDEU2020 ==
    EmRow(<<"D", "E", "U">>, <<"G", "e", "r", "m", "a", "n", "y">>, <<"2", "0", "2", "0">>,
          <<"2">>, <<"3">>, <<"-", "1">>, <<"0">>,
          <<"0">>, <<"0">>, <<"0">>, <<"7">>)

\* the emissions files the page may be served
IndexEmCsvs ==
    { <<rowDEU2021, rowDEU1950, rowFRA2020, rowFRA2021, rowATA1900>>,
      <<rowDEU2021, rowFRA1900>>,
      <<rowWLD2021, rowFRA2020, rowWLD2020>>,
      <<rowDEU2021, rowDEU2020, rowFRA2020>>,
      <<rowATA1900, rowWLD2020>>,
      <<>> }

\* the World Bank files the page may be served
IndexWbCsvs ==
    { <<WbRow(<<"G", "e", "r", "m", "a", "n", "y">>, <<"2", "0", "2", "1", "-", "0", "1", "-", "0", "1">>,
             <<"8", "3">>, <<"4">>, <<"7">>, <<"N", "A">>, <<>>),
        WbRow(<<"F", "r", "a", "n", "c", "e">>, <<"2", "0", "2", "0", "-", "0", "1", "-", "0", "1">>,
             <<"6", "7">>, <<"3">>, <<>>, <<"-", "1">>, <<"N", "a", "N">>)>>,
      <<>> }

\* sizes the ResizeObserver reports for the line chart container
LineSizes ==
    { [width |-> 800, height |-> 0], [width |-> 800, height |-> 600],
      [width |-> 1024, height |-> 600] }

\* sizes the ResizeObserver reports for the bar chart container
BarSizes == { [width |-> 256, height |-> 300] }

\* no effect is waiting to run
Quiescent == ~prepickPending /\ ~drawPending /\ ~barPending

sDEU == <<"D", "E", "U">>

sFRA == <<"F", "R", "A">>

InitIndex ==
    /\ emLoading = TRUE /\ emissionsData = <<>>
    /\ wbLoading = TRUE /\ worldBankData = <<>>
    /\ countryA = sDEU /\ countryB = sFRA
    /\ selectedYear = Null
    /\ size = [width |-> 0, height |-> 0]
    /\ barChartSize = [width |-> 0, height |-> 0]
    /\ prepickPending = TRUE /\ drawPending = TRUE /\ barPending = TRUE
    /\ lineChartDom = NoLineChart /\ barChartDom = NoBarChart
    /\ crashed = FALSE /\ firstResolved = "none" /\ everDrawn = FALSE
    /\ IdleLoad /\ IdleShares /\ IdleMap /\ IdleChart /\ IdleIso

\* loadEmissions().then(...): setEmissionsData, setEmLoading(false)
ResolveEmissions ==
    /\ ~crashed /\ Quiescent /\ emLoading
    /\ \E csv \in IndexEmCsvs : emissionsData' = loadEmissions(csv)
    /\ emLoading' = FALSE
    /\ prepickPending' = TRUE /\ drawPending' = TRUE /\ barPending' = TRUE
    /\ firstResolved' = IF firstResolved = "none" THEN "em" ELSE firstResolved
    /\ UNCHANGED <<wbLoading, worldBankData, countryA, countryB, selectedYear,
                   size, barChartSize, lineChartDom, barChartDom, crashed,
                   everDrawn, OutsideIndex>>

\* loadWorldBank().then(...): setWorldBankData, setWbLoading(false)
ResolveWorldBank ==
    /\ ~crashed /\ Quiescent /\ wbLoading
    /\ \E csv \in IndexWbCsvs : worldBankData' = loadWorldBank(WbHeaderFull, csv)
    /\ wbLoading' = FALSE
    /\ drawPending' = TRUE
    /\ firstResolved' = IF firstResolved = "none" THEN "wb" ELSE firstResolved
    /\ UNCHANGED <<emLoading, emissionsData, countryA, countryB, selectedYear,
                   size, barChartSize, prepickPending, barPending,
                   lineChartDom, barChartDom, crashed, everDrawn, OutsideIndex>>

\* the ResizeObserver of the line chart container: setDimensions (a new object)
ResizeLine(s) ==
    /\ ~crashed /\ Quiescent
    /\ size' = s
    /\ drawPending' = TRUE
    /\ UNCHANGED <<emLoading, emissionsData, wbLoading, worldBankData, countryA,
                   countryB, selectedYear, barChartSize, prepickPending,
                   barPending, lineChartDom, barChartDom, crashed,
                   firstResolved, everDrawn, OutsideIndex>>

\* the ResizeObserver of the bar chart container
ResizeBar(s) ==
    /\ ~crashed /\ Quiescent
    /\ barChartSize' = s
    /\ barPending' = TRUE
    /\ UNCHANGED <<emLoading, emissionsData, wbLoading, worldBankData, countryA,
                   countryB, selectedYear, size, prepickPending, drawPending,
                   lineChartDom, barChartDom, crashed, firstResolved, everDrawn,
                   OutsideIndex>>

\* the option a <select value={v}> shows: v if it is an option, else the first
ShownOption(v) ==
    IF FindIso(emissionsData, v) # 0 THEN v ELSE emissionsData[1].iso3

\* onChange of the Country A select (disabled while emLoading)
SetCountryA(c) ==
    /\ ~crashed /\ Quiescent /\ ~emLoading /\ Len(emissionsData) > 0
    /\ FindIso(emissionsData, c) # 0
    /\ c # ShownOption(countryA)
    /\ countryA' = c
    /\ prepickPending' = TRUE /\ drawPending' = TRUE /\ barPending' = TRUE
    /\ UNCHANGED <<emLoading, emissionsData, wbLoading, worldBankData, countryB,
                   selectedYear, size, barChartSize, lineChartDom, barChartDom,
                   crashed, firstResolved, everDrawn, OutsideIndex>>

\* onChange of the Country B select
SetCountryB(c) ==
    /\ ~crashed /\ Quiescent /\ ~emLoading /\ Len(emissionsData) > 0
    /\ FindIso(emissionsData, c) # 0
    /\ c # ShownOption(countryB)
    /\ countryB' = c
    /\ prepickPending' = TRUE /\ drawPending' = TRUE /\ barPending' = TRUE
    /\ UNCHANGED <<emLoading, emissionsData, wbLoading, worldBankData, countryA,
                   selectedYear, size, barChartSize, lineChartDom, barChartDom,
                   crashed, firstResolved, everDrawn, OutsideIndex>>

\* onPointClick of a marker of the displayed chart: setSelectedYear(cd.year);
\* setting the value the state already has schedules nothing
PointClick(l, i) ==
    /\ ~crashed /\ Quiescent /\ lineChartDom.kind = "chart"
    /\ l \in 1..Len(lineChartDom.lines) /\ i \in 1..Len(lineChartDom.lines[l])
    /\ LET year == lineChartDom.lines[l][i].customData.year IN
         IF year = selectedYear
         THEN UNCHANGED <<selectedYear, prepickPending, drawPending, barPending>>
         ELSE /\ selectedYear' = year
              /\ prepickPending' = TRUE /\ drawPending' = TRUE /\ barPending' = TRUE
    /\ UNCHANGED <<emLoading, emissionsData, wbLoading, worldBankData, countryA,
                   countryB, size, barChartSize, lineChartDom, barChartDom,
                   crashed, firstResolved, everDrawn, OutsideIndex>>

PrepickEffect_notOnce ==
    /\ ~crashed /\ prepickPending /\ ~drawPending /\ ~barPending
    /\ LET y == IF emLoading \/ Len(emissionsData) = 0
                THEN Null
                ELSE prepickYear(emissionsData, countryA, countryB)
       IN  IF y = Null \/ y = selectedYear
           THEN /\ prepickPending' = FALSE
                /\ UNCHANGED <<selectedYear, drawPending, barPending>>
           ELSE /\ selectedYear' = y
                /\ prepickPending' = TRUE /\ drawPending' = TRUE /\ barPending' = TRUE
    /\ UNCHANGED <<emLoading, emissionsData, wbLoading, worldBankData, countryA,
                   countryB, size, barChartSize, lineChartDom, barChartDom,
                   crashed, firstResolved, everDrawn, OutsideIndex>>

\* the initial-year effect ("prepick 2021 if available")
PrepickEffect ==
    /\ ~crashed /\ prepickPending /\ ~drawPending /\ ~barPending
    /\ LET y == IF selectedYear # Null \/ emLoading \/ Len(emissionsData) = 0
                THEN Null
                ELSE prepickYear(emissionsData, countryA, countryB)
       IN  IF y = Null
           THEN /\ prepickPending' = FALSE
                /\ UNCHANGED <<selectedYear, drawPending, barPending>>
           ELSE /\ selectedYear' = y
                /\ prepickPending' = TRUE /\ drawPending' = TRUE /\ barPending' = TRUE
    /\ UNCHANGED <<emLoading, emissionsData, wbLoading, worldBankData, countryA,
                   countryB, size, barChartSize, lineChartDom, barChartDom,
                   crashed, firstResolved, everDrawn, OutsideIndex>>

\* the draw effect of the line chart
DrawEffect ==
    /\ ~crashed /\ drawPending
    /\ IF ~DrawGuard
       THEN /\ drawPending' = FALSE
            /\ UNCHANGED <<lineChartDom, barChartDom, crashed, everDrawn,
                           prepickPending, barPending>>
       ELSE
         LET A == processEmissionsCountry(emissionsData, countryA, selectedYear)
             B == processEmissionsCountry(emissionsData, countryB, selectedYear)
         IN  IF A.threw \/ B.threw
             THEN /\ crashed' = TRUE
                  /\ lineChartDom' = [NoLineChart EXCEPT !.kind = "unmounted"]
                  /\ barChartDom' = [NoBarChart EXCEPT !.kind = "unmounted"]
                  /\ prepickPending' = FALSE /\ drawPending' = FALSE
                  /\ barPending' = FALSE
                  /\ UNCHANGED everDrawn
             ELSE /\ lineChartDom' =
                        drawEmissionsComparisonChart(A, B, countryA, countryB,
                                                     selectedYear, size)
                  /\ everDrawn' = (everDrawn \/ lineChartDom'.kind = "chart")
                  /\ drawPending' = FALSE
                  /\ UNCHANGED <<barChartDom, crashed, prepickPending, barPending>>
    /\ UNCHANGED <<emLoading, emissionsData, wbLoading, worldBankData, countryA,
                   countryB, selectedYear, size, barChartSize, firstResolved,
                   OutsideIndex>>

\* the early returns of the bar chart effect
BarGuard ==
    /\ ~emLoading
    /\ barChartSize.width # 0 /\ barChartSize.height # 0
    /\ selectedYear # Null

\* the bar chart effect
BarEffect ==
    /\ ~crashed /\ barPending /\ ~drawPending
    /\ barPending' = FALSE
    /\ barChartDom' = IF BarGuard
                      THEN drawBarChart(emissionsData, countryA, countryB, selectedYear)
                      ELSE barChartDom
    /\ UNCHANGED <<emLoading, emissionsData, wbLoading, worldBankData, countryA,
                   countryB, selectedYear, size, barChartSize, prepickPending,
                   drawPending, lineChartDom, crashed, firstResolved, everDrawn,
                   OutsideIndex>>

IsoCodes == {rowDEU2021[cIso3], rowFRA2020[cIso3], rowATA1900[cIso3], rowWLD2021[cIso3]}

NextIndex ==
    \/ ResolveEmissions
    \/ ResolveWorldBank
    \/ \E s \in LineSizes : ResizeLine(s)
    \/ \E s \in BarSizes : ResizeBar(s)
    \/ \E c \in IsoCodes : SetCountryA(c)
    \/ \E c \in IsoCodes : SetCountryB(c)
    \/ \E l \in 1..2 : \E i \in 1..3 : PointClick(l, i)
    \/ PrepickEffect
    \/ DrawEffect
    \/ BarEffect

SpecIndex == InitIndex /\ [][NextIndex]_vars

----------------------------------------------------------------------------
(* Properties of the index page.                                             *)

\* C6: drawing the line chart raises no exception, whatever emissions file
\* was loaded and whichever countries are selected, a country absent from
\* the data or with no point in 1950 or later included.
C6_NoException == ~crashed

\* the selected country has a series but none of its points is drawn
NoPointSince1950(iso3) ==
    /\ FindIso(emissionsData, iso3) # 0
    /\ \A i \in 1..Len(emissionsData[FindIso(emissionsData, iso3)].points) :
          LET q == emissionsData[FindIso(emissionsData, iso3)].points[i]
          IN  ~(q.year.v >= MIN_YEAR /\ IsFinite(q.perCapita))

\* C6, where it fails: the draw effect threw while a selected country had a
\* series without any point to draw
C6_Thrown == crashed /\ (NoPointSince1950(countryA) \/ NoPointSince1950(countryB))

\* the country has no shares to show for the year
NoSharesFor(iso3, year) ==
    LET c == FindIso(emissionsData, iso3) IN
    \/ c = 0
    \/ \A i \in 1..Len(emissionsData[c].points) :
          emissionsData[c].points[i].year # year
    \/ SumShare(sourceSharesForYear(emissionsData[c].points, year)).n <= 0

YearsAsked == {Num(1900), Num(1950), Num(2020), Num(2021), Num(2022)}

\* C7: sourceSharesForYear returns the empty list when no point has the
\* requested year; the bar chart shows "No data for selected year." and no
\* segment exactly when each of the two countries is absent, has no point
\* for the selected year or has shares that do not sum to a positive
\* number; otherwise bars are drawn and the message is not shown.
C7_BarMessage ==
    /\ \A c \in 1..Len(emissionsData) : \A y \in YearsAsked :
          (\A i \in 1..Len(emissionsData[c].points) :
              emissionsData[c].points[i].year # y)
          => sourceSharesForYear(emissionsData[c].points, y) = <<>>
    /\ barChartDom.kind \in {"message", "bars"} =>
          /\ (barChartDom.kind = "message")
               <=> (NoSharesFor(barChartDom.a, barChartDom.year)
                    /\ NoSharesFor(barChartDom.b, barChartDom.year))
          /\ barChartDom.kind = "message" =>
                /\ barChartDom.message = "No data for selected year."
                /\ barChartDom.stackA = <<>> /\ barChartDom.stackB = <<>>
          /\ barChartDom.kind = "bars" =>
                /\ barChartDom.message = ""
                /\ Len(barChartDom.stackA) + Len(barChartDom.stackB) > 0
                /\ (barChartDom.stackA = <<>>)
                     <=> NoSharesFor(barChartDom.a, barChartDom.year)
                /\ (barChartDom.stackB = <<>>)
                     <=> NoSharesFor(barChartDom.b, barChartDom.year)

\* the message is shown for a country absent from the data and a country
\* whose shares for the year sum to 0
C7_Witness ==
    /\ barChartDom.kind = "message"
    /\ FindIso(emissionsData, barChartDom.a) = 0
    /\ FindIso(emissionsData, barChartDom.b) # 0
    /\ \E i \in 1..Len(emissionsData[FindIso(emissionsData, barChartDom.b)].points) :
          emissionsData[FindIso(emissionsData, barChartDom.b)].points[i].year
            = barChartDom.year

\* C9: whichever fetch resolves first and however resizes and user events
\* interleave, the line chart container is drawn into only in states where
\* emLoading and wbLoading are both false and width and height are non-zero.
C9_DrawnOnlyWhenReady ==
    /\ [](lineChartDom.kind \in {"svg", "chart"} => ~emLoading /\ ~wbLoading)
    /\ [][lineChartDom' # lineChartDom =>
            /\ ~emLoading /\ ~wbLoading
            /\ size.width # 0 /\ size.height # 0]_vars

\* the chart is on display and the World Bank fetch resolved first
C9_Witness == lineChartDom.kind = "chart" /\ firstResolved = "wb"

\* the chart the draw effect produces from the current state
CurrentChart ==
    drawEmissionsComparisonChart(
        processEmissionsCountry(emissionsData, countryA, selectedYear),
        processEmissionsCountry(emissionsData, countryB, selectedYear),
        countryA, countryB, selectedYear, size)

\* C10: once both datasets are loaded and the container has non-zero size,
\* when the effects have run the displayed line chart is the one drawn from
\* the current countryA, countryB, selectedYear, size and data.
C10_NoStaleChart ==
    (~emLoading /\ ~wbLoading /\ size.width # 0 /\ size.height # 0 /\ Quiescent)
    => lineChartDom = CurrentChart

\* C10 holds as long as the draw effect has not thrown
C10_UnlessThrown ==
    (~crashed /\ ~emLoading /\ ~wbLoading /\ size.width # 0 /\ size.height # 0
     /\ Quiescent)
    => lineChartDom = CurrentChart

\* the draw effect has run on loaded data in a container of non-zero size
ChartIsCurrent ==
    /\ ~crashed /\ Quiescent /\ ~emLoading /\ ~wbLoading
    /\ size.width # 0 /\ size.height # 0
    /\ lineChartDom.kind = "chart"

\* the marker has 1.6 times the base size of its line and the outline
DrawnSelected(mk, baseSize) ==
    /\ RatEq(mk.a, Rat(baseSize * 16, 10))
    /\ mk.stroke = "var(--color-zinc-100)" /\ mk.strokeWidth = 2

\* the marker has the base size of its line and no outline
DrawnPlain(mk, baseSize) ==
    /\ RatEq(mk.a, Rat(baseSize, 1))
    /\ mk.stroke = "none" /\ mk.strokeWidth = 0

BaseSizeOf(l) == IF l = 1 THEN 8 ELSE 6

\* C11: a click on a marker of either line sets selectedYear to the year of
\* the clicked point; after the redraw the markers drawn as selected are
\* exactly the points of both lines whose year is selectedYear, all others
\* have base size and no outline.
C11_SelectedMarkers ==
    /\ [](ChartIsCurrent =>
            \A l \in 1..Len(lineChartDom.markers) :
              \A i \in 1..Len(lineChartDom.markers[l]) :
                LET mk == lineChartDom.markers[l][i] IN
                IF mk.point.x = selectedYear
                THEN DrawnSelected(mk, BaseSizeOf(l))
                ELSE DrawnPlain(mk, BaseSizeOf(l)))
    /\ [][\A l \in 1..2 : \A i \in 1..3 :
            PointClick(l, i) => selectedYear' = lineChartDom.markers[l][i].point.x]_vars

\* after a click on a year other than the initial one, the chart shows a
\* selected and an unselected marker
C11_Witness ==
    /\ ChartIsCurrent
    /\ selectedYear # prepickYear(emissionsData, countryA, countryB)
    /\ \E l \in 1..2 : \E i \in 1..Len(lineChartDom.markers[l]) :
          DrawnSelected(lineChartDom.markers[l][i], BaseSizeOf(l))
    /\ \E l \in 1..2 : \E i \in 1..Len(lineChartDom.markers[l]) :
          DrawnPlain(lineChartDom.markers[l][i], BaseSizeOf(l))

\* C15: the initial-year effect sets selectedYear only while it is null; a
\* non-null selectedYear never becomes null again and is not overwritten by
\* the effect, a change of country A or B leaves it unchanged, and only a
\* click on a chart point changes it.
C15_YearSetOnce ==
    [][/\ selectedYear # Null => selectedYear' # Null
       /\ PrepickEffect /\ selectedYear # Null => selectedYear' = selectedYear
       /\ ((\E c \in IsoCodes : SetCountryA(c)) \/ (\E c \in IsoCodes : SetCountryB(c)))
            => selectedYear' = selectedYear
       /\ selectedYear # Null /\ selectedYear' # selectedYear
            => \E l \in 1..2 : \E i \in 1..3 : PointClick(l, i)
       /\ selectedYear = Null /\ selectedYear' # Null => PrepickEffect]_vars

\* the effect has run after a change of country A and has left a year in
\* place that it would not choose for the countries now selected
C15_Witness ==
    /\ ~crashed /\ Quiescent
    /\ countryA # sDEU
    /\ selectedYear # Null
    /\ prepickYear(emissionsData, countryA, countryB) # Null
    /\ selectedYear # prepickYear(emissionsData, countryA, countryB)

\* the years for which a series with code iso has a point
YearSetOf(iso) ==
    UNION { { emissionsData[c].points[i].year.v :
                i \in 1..Len(emissionsData[c].points) } :
            c \in { d \in 1..Len(emissionsData) : emissionsData[d].iso3 = iso } }

LatestOf(years) == CHOOSE y \in years : \A z \in years : z <= y

\* the initial year by the priority of C16
InitialYearByPriority ==
    LET A == YearSetOf(countryA)
        B == YearSetOf(countryB)
    IN  IF 2021 \in A /\ 2021 \in B THEN Num(2021)
        ELSE IF A \cap B # {} THEN Num(LatestOf(A \cap B))
        ELSE IF A # {} THEN Num(LatestOf(A))
        ELSE IF B # {} THEN Num(LatestOf(B))
        ELSE Null

\* C16: when the emissions data is loaded and non-empty and no year is
\* selected, the initial-year effect selects 2021 if both selected countries
\* have a point for 2021, otherwise the latest year both have, otherwise the
\* latest year of country A, otherwise the latest year of country B, and
\* leaves selectedYear null when neither has a point.
C16_InitialYearPriority ==
    [][PrepickEffect /\ selectedYear = Null /\ ~emLoading /\ Len(emissionsData) > 0
         => selectedYear' = InitialYearByPriority]_vars

\* before any chart was drawn (so before any click) the year common to both
\* countries is selected although country A has a later year
C16_Witness ==
    /\ ~crashed /\ ~everDrawn /\ ~emLoading
    /\ selectedYear # Null
    /\ YearSetOf(countryA) \cap YearSetOf(countryB) # {}
    /\ selectedYear = Num(LatestOf(YearSetOf(countryA) \cap YearSetOf(countryB)))
    /\ selectedYear # Num(LatestOf(YearSetOf(countryA)))

\* the effect has run on loaded data and has left selectedYear null
C16_WitnessNone ==
    /\ ~crashed /\ Quiescent /\ ~emLoading /\ Len(emissionsData) > 0
    /\ selectedYear = Null
    /\ YearSetOf(countryA) = {} /\ YearSetOf(countryB) = {}

RatLe(a, b) == a.n * b.d <= b.n * a.d

\* the segments of a drawn stack tile the bar from 0 to 1
StackTiles(stack) ==
    /\ Len(stack) = 6
    /\ stack[1].from = Rat(0, 1)
    /\ stack[Len(stack)].to = Rat(1, 1)
    /\ \A i \in 1..Len(stack) :
         /\ RatLe(Rat(0, 1), stack[i].to) /\ RatLe(stack[i].to, Rat(1, 1))
         /\ RatLe(stack[i].from, stack[i].to)
         /\ i > 1 => stack[i].from = stack[i - 1].to

\* the shares getShares returns for a drawn stack sum to 1
DrawnSharesSumToOne(iso3, year) ==
    RatEq(SumShare(getShares(emissionsData, iso3, year)), Rat(1, 1))

\* C17 as stated: for each stacked bar that is drawn the shares of getShares
\* sum to 1, the accumulator is within [0, 1] after every segment and ends
\* at 1, and each segment begins where the previous one ended, so that the
\* six segments tile the bar without gap or overlap.
C17_StackTiles ==
    barChartDom.kind = "bars" =>
      /\ barChartDom.stackA # <<>> =>
           /\ DrawnSharesSumToOne(barChartDom.a, barChartDom.year)
           /\ StackTiles(barChartDom.stackA)
      /\ barChartDom.stackB # <<>> =>
           /\ DrawnSharesSumToOne(barChartDom.b, barChartDom.year)
           /\ StackTiles(barChartDom.stackB)

\* no source value of the point the stack is drawn from is negative
StackFromNonNegative(stack) ==
    \A i \in 1..Len(stack) : RatLe(stack[i].from, stack[i].to)

\* C17 for bars drawn from points without a negative source value
C17_UnlessNegative ==
    barChartDom.kind = "bars" =>
      /\ barChartDom.stackA # <<>> =>
           /\ DrawnSharesSumToOne(barChartDom.a, barChartDom.year)
           /\ StackFromNonNegative(barChartDom.stackA) => StackTiles(barChartDom.stackA)
      /\ barChartDom.stackB # <<>> =>
           /\ DrawnSharesSumToOne(barChartDom.b, barChartDom.year)
           /\ StackFromNonNegative(barChartDom.stackB) => StackTiles(barChartDom.stackB)

\* a drawn bar whose accumulator has left [0, 1]
C17_Overshoot ==
    /\ barChartDom.kind = "bars"
    /\ \E i \in 1..Len(barChartDom.stackA) :
         ~RatLe(barChartDom.stackA[i].to, Rat(1, 1))

\* a bar drawn from a point without negative source values
C17_Tiled ==
    /\ barChartDom.kind = "bars" /\ barChartDom.stackA # <<>>
    /\ StackTiles(barChartDom.stackA)
    /\ \E i \in 1..5 : \E j \in (i + 1)..6 :
         /\ barChartDom.stackA[i].from # barChartDom.stackA[i].to
         /\ barChartDom.stackA[j].from # barChartDom.stackA[j].to

----------------------------------------------------------------------------
(* lib/vis/lineChart.ts: the coordinates lineChart computes.  Arithmetic is  *)
(* exact: a number is a fraction n/d in lowest terms (d > 0), NaN or an      *)
(* infinity; rounding and the sign of zero are not modelled.                 *)

XNum(n, d) ==
    IF d < 0
    THEN [k |-> "num", n |-> Rat(0 - n, 0 - d).n, d |-> Rat(0 - n, 0 - d).d]
    ELSE [k |-> "num", n |-> Rat(n, d).n, d |-> Rat(n, d).d]

XInt(i) == [k |-> "num", n |-> i, d |-> 1]

XNaN == [k |-> "nan", n |-> 0, d |-> 1]

XInf == [k |-> "inf", n |-> 0, d |-> 1]

XNegInf == [k |-> "ninf", n |-> 0, d |-> 1]

XSign(a) ==
    CASE a.k = "inf" -> 1
      [] a.k = "ninf" -> 0 - 1
      [] a.k = "nan" -> 0
      [] OTHER -> IF a.n > 0 THEN 1 ELSE IF a.n < 0 THEN 0 - 1 ELSE 0

\* the infinity of sign s
XSigned(s) == IF s > 0 THEN XInf ELSE XNegInf

XNeg(a) ==
    CASE a.k = "num" -> XNum(0 - a.n, a.d)
      [] a.k = "inf" -> XNegInf
      [] a.k = "ninf" -> XInf
      [] OTHER -> XNaN

\* a + b
XAdd(a, b) ==
    IF a.k = "nan" \/ b.k = "nan" THEN XNaN
    ELSE IF a.k = "num" /\ b.k = "num" THEN XNum(a.n * b.d + b.n * a.d, a.d * b.d)
    ELSE IF a.k = "num" THEN b
    ELSE IF b.k = "num" THEN a
    ELSE IF a.k = b.k THEN a ELSE XNaN

\* a - b
XSub(a, b) == XAdd(a, XNeg(b))

\* a * b
XMul(a, b) ==
    IF a.k = "nan" \/ b.k = "nan" THEN XNaN
    ELSE IF a.k = "num" /\ b.k = "num" THEN XNum(a.n * b.n, a.d * b.d)
    ELSE IF XSign(a) = 0 \/ XSign(b) = 0 THEN XNaN
    ELSE XSigned(XSign(a) * XSign(b))

\* a / b
XDiv(a, b) ==
    IF a.k = "nan" \/ b.k = "nan" THEN XNaN
    ELSE IF a.k = "num" /\ b.k = "num"
         THEN IF b.n # 0 THEN XNum(a.n * b.d, a.d * b.n)
              ELSE IF a.n = 0 THEN XNaN ELSE XSigned(XSign(a))
    ELSE IF a.k = "num" THEN XInt(0)
    ELSE IF b.k = "num" THEN XSigned(XSign(a) * (IF XSign(b) < 0 THEN 0 - 1 ELSE 1))
    ELSE XNaN

\* a <= b (false when either is NaN)
XLe(a, b) ==
    IF a.k = "nan" \/ b.k = "nan" THEN FALSE
    ELSE IF a.k = "ninf" \/ b.k = "inf" THEN TRUE
    ELSE IF a.k = "inf" \/ b.k = "ninf" THEN FALSE
    ELSE a.n * b.d <= b.n * a.d

\* a number of a data point (an integer) or a computed number, as the latter
AsX(v) ==
    IF "d" \in DOMAIN v THEN v
    ELSE CASE v.k = "num" -> XInt(v.v)
           [] v.k = "inf" -> XInf
           [] v.k = "ninf" -> XNegInf
           [] OTHER -> XNaN

\* xr / yr / margin left out of the parameters
NoRange == [def |-> FALSE, start |-> Num(0), end |-> Num(0)]

NoMargin == [def |-> FALSE, v |-> 0]

RECURSIVE Flatten(_)
\* data.flatMap((d) => d.data)
Flatten(data) ==
    IF data = <<>> THEN <<>> ELSE Head(data).data \o Flatten(Tail(data))

\* getRange, for data with at least one point
getRange(data, axis) ==
    LET points == Flatten(data)
    IN  [start |-> minElement(points, axis)[axis],
         end   |-> maxElement(points, axis)[axis]]

\* the point of a normalised line
normalizePoint(point, rangeX, rangeY) ==
    [x |-> XDiv(XSub(AsX(point.x), AsX(rangeX.start)),
                XSub(AsX(rangeX.end), AsX(rangeX.start))),
     y |-> XDiv(XSub(AsX(point.y), AsX(rangeY.start)),
                XSub(AsX(rangeY.end), AsX(rangeY.start))),
     customData |-> point.customData]

getX_fromZero(point, x, sz, margin) ==
    XAdd(XInt(margin),
         XMul(AsX(point.x),
              XDiv(XInt(sz.width - 2 * margin), XSub(x.end, x.start))))

\* point -> chart X
getX(point, x, sz, margin) ==
    LET dx == XDiv(XInt(sz.width - 2 * margin), XSub(x.end, x.start))
    IN  XAdd(XInt(margin),
             XMul(XAdd(AsX(point.x), XMul(XInt(0 - 1), x.start)), dx))

getY_fromTop(point, y, sz, margin) ==
    LET dy == XDiv(XInt(sz.height - 2 * margin), XSub(y.end, y.start))
    IN  XAdd(XInt(margin),
             XMul(XAdd(AsX(point.y), XMul(XInt(0 - 1), y.start)), dy))

\* point -> chart Y
getY(point, y, sz, margin) ==
    LET dy == XDiv(XInt(sz.height - 2 * margin), XSub(y.end, y.start))
    IN  XSub(XSub(XInt(sz.height), XInt(margin)),
             XMul(XAdd(AsX(point.y), XMul(XInt(0 - 1), y.start)), dy))

\* d3.scaleLinear().domain([d0, d1]).range([r0, r1]) at v: the value is
\* normalised over the domain (0.5 for a domain of one value) and the range is
\* interpolated, both taken in ascending order of the domain
scaleLinear(d0, d1, r0, r1, v) ==
    LET lo == IF XLe(d0, d1) THEN d0 ELSE d1
        hi == IF XLe(d0, d1) THEN d1 ELSE d0
        a  == IF XLe(d0, d1) THEN r0 ELSE r1
        b  == IF XLe(d0, d1) THEN r1 ELSE r0
        w  == XSub(hi, lo)
        tt == IF w.k = "nan" THEN XNaN
              ELSE IF w = XInt(0) THEN XNum(1, 2)
              ELSE XDiv(XSub(v, lo), w)
    IN  XAdd(XMul(a, XSub(XInt(1), tt)), XMul(b, tt))

\* scaleX of the bottom axis
scaleX(v, x, sz, margin) ==
    scaleLinear(x.start, x.end, XInt(margin), XInt(sz.width - margin), v)

\* scaleY of the left axis, whose domain runs from y.end to y.start
scaleY(v, y, sz, margin) ==
    scaleLinear(y.end, y.start, XInt(margin), XInt(sz.height - margin), v)

NoChart ==
    [threw |-> FALSE, x |-> <<>>, y |-> <<>>, lines |-> <<>>, pos |-> <<>>,
     ends |-> <<>>, scaled |-> <<>>]

\* lineChart: the axis ranges, the (normalised) lines, the pixel position of
\* every point and of the ends of the axis ranges; threw = TRUE stands for
\* the TypeError of getRange on data without points
lineChart(params) ==
    LET data      == params.data
        sz        == params.size
        margin    == IF params.margin.def THEN params.margin.v ELSE 32
        normalize == params.normalize
    IN  IF (~params.xr.def \/ ~params.yr.def) /\ ReduceThrows(Flatten(data))
        THEN [NoChart EXCEPT !.threw = TRUE]
        ELSE
          LET rangeX == IF params.xr.def
                        THEN [start |-> params.xr.start, end |-> params.xr.end]
                        ELSE getRange(data, "x")
              rangeY == IF params.yr.def
                        THEN [start |-> params.yr.start, end |-> params.yr.end]
                        ELSE getRange(data, "y")
              x == IF normalize THEN [start |-> XInt(0), end |-> XInt(1)]
                   ELSE [start |-> AsX(rangeX.start), end |-> AsX(rangeX.end)]
              y == IF normalize THEN [start |-> XInt(0), end |-> XInt(1)]
                   ELSE [start |-> AsX(rangeY.start), end |-> AsX(rangeY.end)]
              lines == [l \in 1..Len(data) |->
                         [data |-> [i \in 1..Len(data[l].data) |->
                                      IF normalize
                                      THEN normalizePoint(data[l].data[i], rangeX, rangeY)
                                      ELSE data[l].data[i]]]]
          IN  [threw |-> FALSE, x |-> x, y |-> y, lines |-> lines,
               pos   |-> [l \in 1..Len(lines) |->
                            [i \in 1..Len(lines[l].data) |->
                               [X |-> getX(lines[l].data[i], x, sz, margin),
                                Y |-> getY(lines[l].data[i], y, sz, margin)]]],
               ends  |-> [x0 |-> getX([x |-> x.start, y |-> XInt(0)], x, sz, margin),
                          x1 |-> getX([x |-> x.end, y |-> XInt(0)], x, sz, margin),
                          y0 |-> getY([x |-> XInt(0), y |-> y.start], y, sz, margin),
                          y1 |-> getY([x |-> XInt(0), y |-> y.end], y, sz, margin)],
               scaled |-> [l \in 1..Len(lines) |->
                            [i \in 1..Len(lines[l].data) |->
                               [X |-> scaleX(AsX(lines[l].data[i].x), x, sz, margin),
                                Y |-> scaleY(AsX(lines[l].data[i].y), y, sz, margin)]]]]

----------------------------------------------------------------------------
(* lineChart applied to the parameters of a call.                            *)

MaxCoord == 2

ChartCoords == (0 - 1)..MaxCoord

ChartPoint(px, py) ==
    [x |-> Num(px), y |-> Num(py), customData |-> [ox |-> px, oy |-> py]]

ChartPointPool == {ChartPoint(px, py) : px \in ChartCoords, py \in ChartCoords}

\* the first line has up to two points (the second not left of the first:
\* the coordinates of a point do not depend on its place in the line), the
\* second line none or one
ChartDataPool ==
    { <<[data |-> l1], [data |-> l2]>> :
        l1 \in {<<>>} \cup {<<p>> : p \in ChartPointPool}
                 \cup {<<p, q>> : p \in ChartPointPool,
                                  q \in {r \in ChartPointPool : r.x.v >= 0}},
        l2 \in {<<>>, <<ChartPoint(1, 1)>>} }

ChartRange(s, e) == [def |-> TRUE, start |-> Num(s), end |-> Num(e)]

ChartSizes == { [width |-> 100, height |-> 80], [width |-> 40, height |-> 200] }

InitChart ==
    /\ chartArgs \in [data      : ChartDataPool,
                      size      : ChartSizes,
                      xr        : {NoRange, ChartRange(0, 2), ChartRange(1, 1)},
                      yr        : {NoRange, ChartRange(0 - 1, 2)},
                      normalize : BOOLEAN,
                      margin    : {NoMargin, [def |-> TRUE, v |-> 0]}]
    /\ chartOut = NoChart
    /\ chartDone = FALSE
    /\ IdleLoad /\ IdleShares /\ IdleIndex /\ IdleMap /\ IdleIso

ApplyLineChart ==
    /\ ~chartDone
    /\ chartOut' = lineChart(chartArgs)
    /\ chartDone' = TRUE
    /\ UNCHANGED <<chartArgs, OutsideChart>>

NextChart == ApplyLineChart

SpecChart == InitChart /\ [][NextChart]_vars

\* a <= b <= c
XBetween(a, b, c) == XLe(a, b) /\ XLe(b, c)

XLt(a, b) == XLe(a, b) /\ ~XLe(b, a)

ChartMargin == IF chartArgs.margin.def THEN chartArgs.margin.v ELSE 32

\* the points of the drawn lines with their pixel positions
ChartPlaced ==
    UNION { { [p |-> chartOut.lines[l].data[i], at |-> chartOut.pos[l][i],
                 ax |-> chartOut.scaled[l][i]] :
                i \in 1..Len(chartOut.lines[l].data) } :
            l \in 1..Len(chartOut.lines) }

\* what C12 states of a chart whose axes have start < end
PixelMappingHolds ==
    LET m == XInt(ChartMargin)
        r == XInt(chartArgs.size.width - ChartMargin)
        b == XInt(chartArgs.size.height - ChartMargin)
    IN  /\ chartOut.ends.x0 = m /\ chartOut.ends.x1 = r
        /\ chartOut.ends.y0 = b /\ chartOut.ends.y1 = m
        /\ \A u \in ChartPlaced :
             /\ u.at.X = XAdd(m, XMul(XDiv(XSub(AsX(u.p.x), chartOut.x.start),
                                           XSub(chartOut.x.end, chartOut.x.start)),
                                      XSub(r, m)))
             /\ u.at.Y = XSub(b, XMul(XDiv(XSub(AsX(u.p.y), chartOut.y.start),
                                           XSub(chartOut.y.end, chartOut.y.start)),
                                      XSub(b, m)))
             /\ XBetween(chartOut.x.start, AsX(u.p.x), chartOut.x.end)
                  => XBetween(m, u.at.X, r)
             /\ XBetween(chartOut.y.start, AsX(u.p.y), chartOut.y.end)
                  => XBetween(m, u.at.Y, b)
        /\ \A u \in ChartPlaced : \A v \in ChartPlaced :
             /\ XLe(AsX(u.p.x), AsX(v.p.x)) => XLe(u.at.X, v.at.X)
             /\ XLe(AsX(u.p.y), AsX(v.p.y)) => XLe(v.at.Y, u.at.Y)

ChartAxesIncrease ==
    /\ chartDone /\ ~chartOut.threw
    /\ XLt(chartOut.x.start, chartOut.x.end)
    /\ XLt(chartOut.y.start, chartOut.y.end)

\* C12 as stated: with start < end on both axes the mapping is linear and
\* monotonic, maps the ends of the ranges to the edges of the plot rectangle
\* and places every point inside the ranges inside that rectangle.
C12_Original == ChartAxesIncrease => PixelMappingHolds

\* C12, for a container at least two margins wide and high: with start < end
\* on both axes getX maps x.start to margin and x.end to width - margin,
\* getY maps y.start to height - margin and y.end to margin, the mapping is
\* linear and monotonic (larger y is higher on screen) and every point inside
\* the ranges lies inside [margin, width - margin] x [margin, height - margin].
C12_PixelMapping ==
    (/\ ChartAxesIncrease
     /\ chartArgs.size.width >= 2 * ChartMargin
     /\ chartArgs.size.height >= 2 * ChartMargin)
    => PixelMappingHolds

\* a chart with explicit ranges and two points at different places inside
C12_Witness ==
    /\ ChartAxesIncrease /\ ~chartArgs.normalize
    /\ chartArgs.xr.def /\ chartArgs.yr.def
    /\ chartArgs.size.width >= 2 * ChartMargin
    /\ chartArgs.size.height >= 2 * ChartMargin
    /\ \E u \in ChartPlaced : \E v \in ChartPlaced :
         /\ XLt(u.at.X, v.at.X) /\ XLt(v.at.Y, u.at.Y)
         /\ XLt(XInt(ChartMargin), u.at.X)

\* the x (axis = "x") or y values of all points passed to the call
ChartValues(axis) ==
    LET points == Flatten(chartArgs.data)
    IN  { points[i][axis].v : i \in 1..Len(points) }

SmallestOf(S) == CHOOSE m \in S : \A n \in S : m <= n

LargestOf(S) == CHOOSE m \in S : \A n \in S : m >= n

\* v between the smallest and the largest value of its axis, as a fraction
ChartFraction(v, axis) ==
    XDiv(XInt(v - SmallestOf(ChartValues(axis))),
         XInt(LargestOf(ChartValues(axis)) - SmallestOf(ChartValues(axis))))

\* the normalised point q of the point p is what C13 says
NormalisedAsStated(p, q) ==
    /\ q.customData = p.customData
    /\ \A axis \in {"x", "y"} :
         /\ q[axis] = ChartFraction(p[axis].v, axis)
         /\ XBetween(XInt(0), q[axis], XInt(1))
         /\ p[axis].v = SmallestOf(ChartValues(axis)) => q[axis] = XInt(0)
         /\ p[axis].v = LargestOf(ChartValues(axis)) => q[axis] = XInt(1)

ChartNormalises ==
    /\ ~chartOut.threw
    /\ chartOut.x = [start |-> XInt(0), end |-> XInt(1)]
    /\ chartOut.y = [start |-> XInt(0), end |-> XInt(1)]
    /\ \A l \in 1..Len(chartArgs.data) : \A i \in 1..Len(chartArgs.data[l].data) :
         NormalisedAsStated(chartArgs.data[l].data[i], chartOut.lines[l].data[i])

ChartPassesThrough == ~chartOut.threw => chartOut.lines = chartArgs.data

NormalizeWithoutRanges ==
    chartDone /\ chartArgs.normalize /\ ~chartArgs.xr.def /\ ~chartArgs.yr.def

\* C13 as stated: with normalize = true and no explicit xr / yr every point
\* becomes ((x - minX) / (maxX - minX), (y - minY) / (maxY - minY)) with its
\* customData, all coordinates are in [0, 1], the smallest value of an axis
\* becomes 0 and the largest 1, and the axes span [0, 1]; with
\* normalize = false the points are passed through unchanged.
C13_Original ==
    /\ NormalizeWithoutRanges => ChartNormalises
    /\ chartDone /\ ~chartArgs.normalize => ChartPassesThrough

\* the data has points, and two different values on each axis
ChartIsSpread ==
    /\ Flatten(chartArgs.data) # <<>>
    /\ \A axis \in {"x", "y"} :
         SmallestOf(ChartValues(axis)) < LargestOf(ChartValues(axis))

\* C13 for data with two different values on each axis
C13_WhenSpread ==
    /\ NormalizeWithoutRanges /\ ChartIsSpread => ChartNormalises
    /\ chartDone /\ ~chartArgs.normalize => ChartPassesThrough

\* lineChart has thrown on data without points
C13_Thrown == NormalizeWithoutRanges /\ chartOut.threw /\ Flatten(chartArgs.data) = <<>>

\* lineChart has normalised a single point to NaN
C13_NotANumber ==
    /\ NormalizeWithoutRanges /\ ~chartOut.threw
    /\ \E u \in ChartPlaced : u.p.x.k = "nan" /\ u.at.X.k = "nan"


\* C23: for every point (with finite coordinates) and every range with
\* start < end the position that getX / getY compute is the position scaleX /
\* scaleY give to the same data value, so that markers line up with the axis
\* ticks.
C23_MarkersOnTicks ==
    ChartAxesIncrease =>
      \A u \in ChartPlaced :
        /\ AsX(u.p.x).k = "num" => u.at.X.k = "num" /\ u.at.X = u.ax.X
        /\ AsX(u.p.y).k = "num" => u.at.Y.k = "num" /\ u.at.Y = u.ax.Y

\* a chart with a point inside the ranges and a point outside them (left of
\* x.start), both drawn where the axis scales put their values
C23_Witness ==
    /\ ChartAxesIncrease /\ chartArgs.xr.def
    /\ \E u \in ChartPlaced : \E v \in ChartPlaced :
         /\ XLt(AsX(u.p.x), chartOut.x.start)
         /\ XLt(chartOut.x.start, AsX(v.p.x)) /\ XLt(AsX(v.p.x), chartOut.x.end)
         /\ XLt(chartOut.y.start, AsX(v.p.y)) /\ XLt(AsX(v.p.y), chartOut.y.end)
         /\ u.at.X = u.ax.X /\ v.at = v.ax
         /\ u.at.X # v.at.X

----------------------------------------------------------------------------
(* lib/vis/choroplethMap.ts                                                  *)

\* the entries <<numeric code, alpha-3 code>> of the table
ISO_NUMERIC_TO_ALPHA3 ==
    {
      <<<<"4">>, <<"A", "F", "G">>>>, <<<<"8">>, <<"A", "L", "B">>>>, <<<<"1", "0">>, <<"A", "T", "A">>>>,
      <<<<"1", "2">>, <<"D", "Z", "A">>>>, <<<<"1", "6">>, <<"A", "S", "M">>>>, <<<<"2", "0">>, <<"A", "N", "D">>>>,
      <<<<"2", "4">>, <<"A", "G", "O">>>>, <<<<"2", "8">>, <<"A", "T", "G">>>>, <<<<"3", "1">>, <<"A", "Z", "E">>>>,
      <<<<"3", "2">>, <<"A", "R", "G">>>>, <<<<"3", "6">>, <<"A", "U", "S">>>>, <<<<"4", "0">>, <<"A", "U", "T">>>>,
      <<<<"4", "4">>, <<"B", "H", "S">>>>, <<<<"4", "8">>, <<"B", "H", "R">>>>, <<<<"5", "0">>, <<"B", "G", "D">>>>,
      <<<<"5", "1">>, <<"A", "R", "M">>>>, <<<<"5", "2">>, <<"B", "R", "B">>>>, <<<<"5", "6">>, <<"B", "E", "L">>>>,
      <<<<"6", "0">>, <<"B", "M", "U">>>>, <<<<"6", "4">>, <<"B", "T", "N">>>>, <<<<"6", "8">>, <<"B", "O", "L">>>>,
      <<<<"7", "0">>, <<"B", "I", "H">>>>, <<<<"7", "2">>, <<"B", "W", "A">>>>, <<<<"7", "4">>, <<"B", "V", "T">>>>,
      <<<<"7", "6">>, <<"B", "R", "A">>>>, <<<<"8", "4">>, <<"B", "L", "Z">>>>, <<<<"8", "6">>, <<"I", "O", "T">>>>,
      <<<<"9", "0">>, <<"S", "L", "B">>>>, <<<<"9", "2">>, <<"V", "G", "B">>>>, <<<<"9", "6">>, <<"B", "R", "N">>>>,
      <<<<"1", "0", "0">>, <<"B", "G", "R">>>>, <<<<"1", "0", "4">>, <<"M", "M", "R">>>>, <<<<"1", "0", "8">>, <<"B", "D", "I">>>>,
      <<<<"1", "1", "2">>, <<"B", "L", "R">>>>, <<<<"1", "1", "6">>, <<"K", "H", "M">>>>, <<<<"1", "2", "0">>, <<"C", "M", "R">>>>,
      <<<<"1", "2", "4">>, <<"C", "A", "N">>>>, <<<<"1", "3", "2">>, <<"C", "P", "V">>>>, <<<<"1", "3", "6">>, <<"C", "Y", "M">>>>,
      <<<<"1", "4", "0">>, <<"C", "A", "F">>>>, <<<<"1", "4", "4">>, <<"L", "K", "A">>>>, <<<<"1", "4", "8">>, <<"T", "C", "D">>>>,
      <<<<"1", "5", "2">>, <<"C", "H", "L">>>>, <<<<"1", "5", "6">>, <<"C", "H", "N">>>>, <<<<"1", "5", "8">>, <<"T", "W", "N">>>>,
      <<<<"1", "6", "2">>, <<"C", "X", "R">>>>, <<<<"1", "6", "6">>, <<"C", "C", "K">>>>, <<<<"1", "7", "0">>, <<"C", "O", "L">>>>,
      <<<<"1", "7", "4">>, <<"C", "O", "M">>>>, <<<<"1", "7", "5">>, <<"M", "Y", "T">>>>, <<<<"1", "7", "8">>, <<"C", "O", "G">>>>,
      <<<<"1", "8", "0">>, <<"C", "O", "D">>>>, <<<<"1", "8", "4">>, <<"C", "O", "K">>>>, <<<<"1", "8", "8">>, <<"C", "R", "I">>>>,
      <<<<"1", "9", "1">>, <<"H", "R", "V">>>>, <<<<"1", "9", "2">>, <<"C", "U", "B">>>>, <<<<"1", "9", "6">>, <<"C", "Y", "P">>>>,
      <<<<"2", "0", "3">>, <<"C", "Z", "E">>>>, <<<<"2", "0", "4">>, <<"B", "E", "N">>>>, <<<<"2", "0", "8">>, <<"D", "N", "K">>>>,
      <<<<"2", "1", "2">>, <<"D", "M", "A">>>>, <<<<"2", "1", "4">>, <<"D", "O", "M">>>>, <<<<"2", "1", "8">>, <<"E", "C", "U">>>>,
      <<<<"2", "2", "2">>, <<"S", "L", "V">>>>, <<<<"2", "2", "6">>, <<"G", "N", "Q">>>>, <<<<"2", "3", "1">>, <<"E", "T", "H">>>>,
      <<<<"2", "3", "2">>, <<"E", "R", "I">>>>, <<<<"2", "3", "3">>, <<"E", "S", "T">>>>, <<<<"2", "3", "4">>, <<"F", "R", "O">>>>,
      <<<<"2", "3", "8">>, <<"F", "L", "K">>>>, <<<<"2", "3", "9">>, <<"S", "G", "S">>>>, <<<<"2", "4", "2">>, <<"F", "J", "I">>>>,
      <<<<"2", "4", "6">>, <<"F", "I", "N">>>>, <<<<"2", "4", "8">>, <<"A", "L", "A">>>>, <<<<"2", "5", "0">>, <<"F", "R", "A">>>>,
      <<<<"2", "5", "4">>, <<"G", "U", "F">>>>, <<<<"2", "5", "8">>, <<"P", "Y", "F">>>>, <<<<"2", "6", "0">>, <<"A", "T", "F">>>>,
      <<<<"2", "6", "2">>, <<"D", "J", "I">>>>, <<<<"2", "6", "6">>, <<"G", "A", "B">>>>, <<<<"2", "6", "8">>, <<"G", "E", "O">>>>,
      <<<<"2", "7", "0">>, <<"G", "M", "B">>>>, <<<<"2", "7", "5">>, <<"P", "S", "E">>>>, <<<<"2", "7", "6">>, <<"D", "E", "U">>>>,
      <<<<"2", "8", "8">>, <<"G", "H", "A">>>>, <<<<"2", "9", "2">>, <<"G", "I", "B">>>>, <<<<"2", "9", "6">>, <<"K", "I", "R">>>>,
      <<<<"3", "0", "0">>, <<"G", "R", "C">>>>, <<<<"3", "0", "4">>, <<"G", "R", "L">>>>, <<<<"3", "0", "8">>, <<"G", "R", "D">>>>,
      <<<<"3", "1", "2">>, <<"G", "L", "P">>>>, <<<<"3", "1", "6">>, <<"G", "U", "M">>>>, <<<<"3", "2", "0">>, <<"G", "T", "M">>>>,
      <<<<"3", "2", "4">>, <<"G", "I", "N">>>>, <<<<"3", "2", "8">>, <<"G", "U", "Y">>>>, <<<<"3", "3", "2">>, <<"H", "T", "I">>>>,
      <<<<"3", "3", "4">>, <<"H", "M", "D">>>>, <<<<"3", "3", "6">>, <<"V", "A", "T">>>>, <<<<"3", "4", "0">>, <<"H", "N", "D">>>>,
      <<<<"3", "4", "4">>, <<"H", "K", "G">>>>, <<<<"3", "4", "8">>, <<"H", "U", "N">>>>, <<<<"3", "5", "2">>, <<"I", "S", "L">>>>,
      <<<<"3", "5", "6">>, <<"I", "N", "D">>>>, <<<<"3", "6", "0">>, <<"I", "D", "N">>>>, <<<<"3", "6", "4">>, <<"I", "R", "N">>>>,
      <<<<"3", "6", "8">>, <<"I", "R", "Q">>>>, <<<<"3", "7", "2">>, <<"I", "R", "L">>>>, <<<<"3", "7", "6">>, <<"I", "S", "R">>>>,
      <<<<"3", "8", "0">>, <<"I", "T", "A">>>>, <<<<"3", "8", "4">>, <<"C", "I", "V">>>>, <<<<"3", "8", "8">>, <<"J", "A", "M">>>>,
      <<<<"3", "9", "2">>, <<"J", "P", "N">>>>, <<<<"3", "9", "8">>, <<"K", "A", "Z">>>>, <<<<"4", "0", "0">>, <<"J", "O", "R">>>>,
      <<<<"4", "0", "4">>, <<"K", "E", "N">>>>, <<<<"4", "0", "8">>, <<"P", "R", "K">>>>, <<<<"4", "1", "0">>, <<"K", "O", "R">>>>,
      <<<<"4", "1", "4">>, <<"K", "W", "T">>>>, <<<<"4", "1", "7">>, <<"K", "G", "Z">>>>, <<<<"4", "1", "8">>, <<"L", "A", "O">>>>,
      <<<<"4", "2", "2">>, <<"L", "B", "N">>>>, <<<<"4", "2", "6">>, <<"L", "S", "O">>>>, <<<<"4", "2", "8">>, <<"L", "V", "A">>>>,
      <<<<"4", "3", "0">>, <<"L", "B", "R">>>>, <<<<"4", "3", "4">>, <<"L", "B", "Y">>>>, <<<<"4", "3", "8">>, <<"L", "I", "E">>>>,
      <<<<"4", "4", "0">>, <<"L", "T", "U">>>>, <<<<"4", "4", "2">>, <<"L", "U", "X">>>>, <<<<"4", "4", "6">>, <<"M", "A", "C">>>>,
      <<<<"4", "5", "0">>, <<"M", "D", "G">>>>, <<<<"4", "5", "4">>, <<"M", "W", "I">>>>, <<<<"4", "5", "8">>, <<"M", "Y", "S">>>>,
      <<<<"4", "6", "2">>, <<"M", "D", "V">>>>, <<<<"4", "6", "6">>, <<"M", "L", "I">>>>, <<<<"4", "7", "0">>, <<"M", "L", "T">>>>,
      <<<<"4", "7", "4">>, <<"M", "T", "Q">>>>, <<<<"4", "7", "8">>, <<"M", "R", "T">>>>, <<<<"4", "8", "0">>, <<"M", "U", "S">>>>,
      <<<<"4", "8", "4">>, <<"M", "E", "X">>>>, <<<<"4", "9", "2">>, <<"M", "C", "O">>>>, <<<<"4", "9", "6">>, <<"M", "N", "G">>>>,
      <<<<"4", "9", "8">>, <<"M", "D", "A">>>>, <<<<"4", "9", "9">>, <<"M", "N", "E">>>>, <<<<"5", "0", "0">>, <<"M", "S", "R">>>>,
      <<<<"5", "0", "4">>, <<"M", "A", "R">>>>, <<<<"5", "0", "8">>, <<"M", "O", "Z">>>>, <<<<"5", "1", "2">>, <<"O", "M", "N">>>>,
      <<<<"5", "1", "6">>, <<"N", "A", "M">>>>, <<<<"5", "2", "0">>, <<"N", "R", "U">>>>, <<<<"5", "2", "4">>, <<"N", "P", "L">>>>,
      <<<<"5", "2", "8">>, <<"N", "L", "D">>>>, <<<<"5", "3", "1">>, <<"C", "U", "W">>>>, <<<<"5", "3", "3">>, <<"A", "B", "W">>>>,
      <<<<"5", "3", "4">>, <<"S", "X", "M">>>>, <<<<"5", "3", "5">>, <<"B", "E", "S">>>>, <<<<"5", "4", "0">>, <<"N", "C", "L">>>>,
      <<<<"5", "4", "8">>, <<"V", "U", "T">>>>, <<<<"5", "5", "4">>, <<"N", "Z", "L">>>>, <<<<"5", "5", "8">>, <<"N", "I", "C">>>>,
      <<<<"5", "6", "2">>, <<"N", "E", "R">>>>, <<<<"5", "6", "6">>, <<"N", "G", "A">>>>, <<<<"5", "7", "0">>, <<"N", "I", "U">>>>,
      <<<<"5", "7", "4">>, <<"N", "F", "K">>>>, <<<<"5", "7", "8">>, <<"N", "O", "R">>>>, <<<<"5", "8", "0">>, <<"M", "N", "P">>>>,
      <<<<"5", "8", "1">>, <<"U", "M", "I">>>>, <<<<"5", "8", "3">>, <<"F", "S", "M">>>>, <<<<"5", "8", "4">>, <<"M", "H", "L">>>>,
      <<<<"5", "8", "5">>, <<"P", "L", "W">>>>, <<<<"5", "8", "6">>, <<"P", "A", "K">>>>, <<<<"5", "9", "1">>, <<"P", "A", "N">>>>,
      <<<<"5", "9", "8">>, <<"P", "N", "G">>>>, <<<<"6", "0", "0">>, <<"P", "R", "Y">>>>, <<<<"6", "0", "4">>, <<"P", "E", "R">>>>,
      <<<<"6", "0", "8">>, <<"P", "H", "L">>>>, <<<<"6", "1", "2">>, <<"P", "C", "N">>>>, <<<<"6", "1", "6">>, <<"P", "O", "L">>>>,
      <<<<"6", "2", "0">>, <<"P", "R", "T">>>>, <<<<"6", "2", "4">>, <<"G", "N", "B">>>>, <<<<"6", "2", "6">>, <<"T", "L", "S">>>>,
      <<<<"6", "3", "0">>, <<"P", "R", "I">>>>, <<<<"6", "3", "4">>, <<"Q", "A", "T">>>>, <<<<"6", "3", "8">>, <<"R", "E", "U">>>>,
      <<<<"6", "4", "2">>, <<"R", "O", "U">>>>, <<<<"6", "4", "3">>, <<"R", "U", "S">>>>, <<<<"6", "4", "6">>, <<"R", "W", "A">>>>,
      <<<<"6", "5", "2">>, <<"B", "L", "M">>>>, <<<<"6", "5", "4">>, <<"S", "H", "N">>>>, <<<<"6", "5", "9">>, <<"K", "N", "A">>>>,
      <<<<"6", "6", "0">>, <<"A", "I", "A">>>>, <<<<"6", "6", "2">>, <<"L", "C", "A">>>>, <<<<"6", "6", "6">>, <<"M", "A", "F">>>>,
      <<<<"6", "7", "0">>, <<"V", "C", "T">>>>, <<<<"6", "7", "4">>, <<"S", "M", "R">>>>, <<<<"6", "7", "8">>, <<"S", "T", "P">>>>,
      <<<<"6", "8", "2">>, <<"S", "A", "U">>>>, <<<<"6", "8", "6">>, <<"S", "E", "N">>>>, <<<<"6", "8", "8">>, <<"S", "R", "B">>>>,
      <<<<"6", "9", "0">>, <<"S", "Y", "C">>>>, <<<<"6", "9", "4">>, <<"S", "L", "E">>>>, <<<<"7", "0", "2">>, <<"S", "G", "P">>>>,
      <<<<"7", "0", "3">>, <<"S", "V", "K">>>>, <<<<"7", "0", "4">>, <<"V", "N", "M">>>>, <<<<"7", "0", "5">>, <<"S", "V", "N">>>>,
      <<<<"7", "0", "6">>, <<"S", "O", "M">>>>, <<<<"7", "1", "0">>, <<"Z", "A", "F">>>>, <<<<"7", "1", "6">>, <<"Z", "W", "E">>>>,
      <<<<"7", "2", "4">>, <<"E", "S", "P">>>>, <<<<"7", "2", "8">>, <<"S", "S", "D">>>>, <<<<"7", "2", "9">>, <<"S", "D", "N">>>>,
      <<<<"7", "3", "2">>, <<"E", "S", "H">>>>, <<<<"7", "4", "0">>, <<"S", "U", "R">>>>, <<<<"7", "4", "4">>, <<"S", "J", "M">>>>,
      <<<<"7", "4", "8">>, <<"S", "W", "Z">>>>, <<<<"7", "5", "2">>, <<"S", "W", "E">>>>, <<<<"7", "5", "6">>, <<"C", "H", "E">>>>,
      <<<<"7", "6", "0">>, <<"S", "Y", "R">>>>, <<<<"7", "6", "2">>, <<"T", "J", "K">>>>, <<<<"7", "6", "4">>, <<"T", "H", "A">>>>,
      <<<<"7", "6", "8">>, <<"T", "G", "O">>>>, <<<<"7", "7", "2">>, <<"T", "K", "L">>>>, <<<<"7", "7", "6">>, <<"T", "O", "N">>>>,
      <<<<"7", "8", "0">>, <<"T", "T", "O">>>>, <<<<"7", "8", "4">>, <<"A", "R", "E">>>>, <<<<"7", "8", "8">>, <<"T", "U", "N">>>>,
      <<<<"7", "9", "2">>, <<"T", "U", "R">>>>, <<<<"7", "9", "5">>, <<"T", "K", "M">>>>, <<<<"7", "9", "6">>, <<"T", "C", "A">>>>,
      <<<<"7", "9", "8">>, <<"T", "U", "V">>>>, <<<<"8", "0", "0">>, <<"U", "G", "A">>>>, <<<<"8", "0", "4">>, <<"U", "K", "R">>>>,
      <<<<"8", "0", "7">>, <<"M", "K", "D">>>>, <<<<"8", "1", "8">>, <<"E", "G", "Y">>>>, <<<<"8", "2", "6">>, <<"G", "B", "R">>>>,
      <<<<"8", "3", "1">>, <<"G", "G", "Y">>>>, <<<<"8", "3", "2">>, <<"J", "E", "Y">>>>, <<<<"8", "3", "3">>, <<"I", "M", "N">>>>,
      <<<<"8", "3", "4">>, <<"T", "Z", "A">>>>, <<<<"8", "4", "0">>, <<"U", "S", "A">>>>, <<<<"8", "5", "0">>, <<"V", "I", "R">>>>,
      <<<<"8", "5", "4">>, <<"B", "F", "A">>>>, <<<<"8", "5", "8">>, <<"U", "R", "Y">>>>, <<<<"8", "6", "0">>, <<"U", "Z", "B">>>>,
      <<<<"8", "6", "2">>, <<"V", "E", "N">>>>, <<<<"8", "7", "6">>, <<"W", "L", "F">>>>, <<<<"8", "8", "2">>, <<"W", "S", "M">>>>,
      <<<<"8", "8", "7">>, <<"Y", "E", "M">>>>, <<<<"8", "9", "4">>, <<"Z", "M", "B">>>> }

\* the property names an object literal inherits from Object.prototype: a
\* lookup of one of them in the table yields an object, not undefined
ObjectPrototypeKeys ==
    {
      <<"c", "o", "n", "s", "t", "r", "u", "c", "t", "o", "r">>,
      <<"h", "a", "s", "O", "w", "n", "P", "r", "o", "p", "e", "r", "t", "y">>,
      <<"i", "s", "P", "r", "o", "t", "o", "t", "y", "p", "e", "O", "f">>,
      <<"p", "r", "o", "p", "e", "r", "t", "y", "I", "s", "E", "n", "u", "m", "e", "r", "a", "b", "l", "e">>,
      <<"t", "o", "L", "o", "c", "a", "l", "e", "S", "t", "r", "i", "n", "g">>,
      <<"t", "o", "S", "t", "r", "i", "n", "g">>,
      <<"v", "a", "l", "u", "e", "O", "f">>,
      <<"_", "_", "p", "r", "o", "t", "o", "_", "_">>,
      <<"_", "_", "d", "e", "f", "i", "n", "e", "G", "e", "t", "t", "e", "r", "_", "_">>,
      <<"_", "_", "d", "e", "f", "i", "n", "e", "S", "e", "t", "t", "e", "r", "_", "_">>,
      <<"_", "_", "l", "o", "o", "k", "u", "p", "G", "e", "t", "t", "e", "r", "_", "_">>,
      <<"_", "_", "l", "o", "o", "k", "u", "p", "S", "e", "t", "t", "e", "r", "_", "_">> }

EXCLUDED_ENTITIES ==
    { <<"W", "o", "r", "l", "d">>, <<"G", "l", "o", "b", "a", "l">>,
      <<"I", "n", "t", "e", "r", "n", "a", "t", "i", "o", "n", "a", "l", " ", "T", "r", "a", "n", "s", "p", "o", "r", "t">> }

\* the id of a GeoJSON feature: undefined, a string or a non-negative number
NoId == [t |-> "undefined", s |-> <<>>, n |-> 0]

StrId(s) == [t |-> "string", s |-> s, n |-> 0]

NumId(n) == [t |-> "number", s |-> <<>>, n |-> n]

DigitChar(d) ==
    CASE d = 0 -> "0" [] d = 1 -> "1" [] d = 2 -> "2" [] d = 3 -> "3"
      [] d = 4 -> "4" [] d = 5 -> "5" [] d = 6 -> "6" [] d = 7 -> "7"
      [] d = 8 -> "8" [] d = 9 -> "9"

RECURSIVE DigitsOf(_)
DigitsOf(n) ==
    IF n < 10 THEN <<DigitChar(n)>>
    ELSE Append(DigitsOf(n \div 10), DigitChar(n % 10))

\* String(numericId)
StringOf(id) ==
    IF id.t = "string" THEN id.s
    ELSE IF id.t = "number" THEN DigitsOf(id.n)
    ELSE <<"u", "n", "d", "e", "f", "i", "n", "e", "d">>

RECURSIVE StripZeros(_)
\* .replace(/^0+/, "")
StripZeros(s) ==
    IF s # <<>> /\ Head(s) = "0" THEN StripZeros(Tail(s)) ELSE s

\* the alpha-3 code of the table, an inherited property, or null
getIso3FromNumeric(numericId) ==
    LET key == StripZeros(StringOf(numericId)) IN
    IF \E e \in ISO_NUMERIC_TO_ALPHA3 : e[1] = key
    THEN [k |-> "string",
          s |-> (CHOOSE e \in ISO_NUMERIC_TO_ALPHA3 : e[1] = key)[2]]
    ELSE IF key \in ObjectPrototypeKeys THEN [k |-> "object", s |-> key]
    ELSE [k |-> "null", s |-> <<>>]

isExcludedEntity_never(countryName) == FALSE

isExcludedEntity(countryName) == countryName \in EXCLUDED_ENTITIES

\* !numericId
IdFalsy(id) ==
    \/ id.t = "undefined"
    \/ id.t = "string" /\ id.s = <<>>
    \/ id.t = "number" /\ id.n = 0

\* data.get(iso3) on the Map of the page: the index of the entry, 0 if none
MapGet(data, iso3) ==
    IF iso3.k = "string" /\ \E i \in 1..Len(data) : data[i].iso3 = iso3.s
    THEN CHOOSE i \in 1..Len(data) : data[i].iso3 = iso3.s
    ELSE 0

RECURSIVE MaxOf(_)
\* Math.max(...values), for a non-empty list
MaxOf(values) ==
    IF Len(values) = 1 THEN Head(values)
    ELSE MathMax(Head(values), MaxOf(Tail(values)))

maxValueOf_first(data) ==
    LET kept == SelectSeq(data, LAMBDA e : ~isExcludedEntity(e.country) /\ e.value.v > 0)
    IN  IF Len(kept) > 0 THEN kept[1].value ELSE Num(1)

\* maxValue of choroplethMap
maxValueOf(data) ==
    LET kept == SelectSeq(data, LAMBDA e : ~isExcludedEntity(e.country) /\ e.value.v > 0)
        countryValues == [i \in 1..Len(kept) |-> kept[i].value]
    IN  IF Len(countryValues) > 0 THEN MaxOf(countryValues) ELSE Num(1)

\* d3.scaleLinear().domain([0, maxValue]).range(colorRange).clamp(true): the
\* colour is the interpolation of colorRange at the returned fraction
colorScale(maxValue, value) ==
    IF value.v <= 0 THEN Rat(0, 1)
    ELSE IF value.v >= maxValue.v THEN Rat(1, 1)
    ELSE Rat(value.v, maxValue.v)

\* the fill attribute of the path of a feature
FeatureFill(id, data, maxValue) ==
    IF IdFalsy(id) THEN colorScale(maxValue, Num(0))
    ELSE LET iso3 == getIso3FromNumeric(id) IN
         IF iso3.k = "null" THEN colorScale(maxValue, Num(0))
         ELSE IF MapGet(data, iso3) = 0 THEN colorScale(maxValue, Num(0))
         ELSE colorScale(maxValue,
                         MathMax(Num(0), data[MapGet(data, iso3)].value))

\* renderColorLegend: the label of the maximum and the unit label; the
\* function has no parameter for the unit and writes "Mt"
renderColorLegend(maxValue, unit) == [max |-> maxValue, unit |-> "Mt"]

NoTooltipHtml ==
    [kind |-> "empty", text |-> "", code |-> <<>>, country |-> <<>>,
     year |-> Null, type |-> "", value |-> Null]

----------------------------------------------------------------------------
(* routes/map.tsx                                                            *)

EMISSION_TYPES == {"perCapita", "total", "coal", "oil", "gas"}

getEmissionValue(point, type) ==
    CASE type = "perCapita" -> point.perCapita
      [] type = "coal" -> point.coal
      [] type = "oil" -> point.oil
      [] type = "gas" -> point.gas
      [] OTHER -> point.total

\* the Map built for the selected year, as the list of its values in
\* insertion order (a series has one iso3, so no key is set twice)
emissionDataMap(data, year, type) ==
    LET kept == SelectSeq(data, LAMBDA c : ~isExcludedEntity(c.country)
                                            /\ FindYear(c.points, year) # 0)
    IN  [i \in 1..Len(kept) |->
           [iso3    |-> kept[i].iso3,
            country |-> kept[i].country,
            value   |-> getEmissionValue(
                            kept[i].points[FindYear(kept[i].points, year)], type)]]

\* currentYearStats: min, max and top country over the values > 0
currentYearStats(map) ==
    LET values == SelectSeq([i \in 1..Len(map) |-> map[i].value], LAMBDA v : v.v > 0)
    IN  IF Len(values) = 0 THEN [min |-> Num(0), max |-> Num(0), topCountry |-> <<>>]
        ELSE LET maxVal == MaxOf(values)
                 top    == CHOOSE i \in 1..Len(map) :
                             /\ map[i].value = maxVal
                             /\ \A j \in 1..(i - 1) : map[j].value # maxVal
             IN  [min |-> CHOOSE m \in Range(values) : \A v \in Range(values) : m.v <= v.v,
                  max |-> maxVal,
                  topCountry |-> map[top].country]

\* renderTooltip of the map page; e = 0 stands for a null emission
renderTooltip_firstEntry(data, e, isoCode, year, type) ==
    IF e = 0 /\ data = <<>>
    THEN [NoTooltipHtml EXCEPT !.kind = "nodata", !.text = "No data available",
                               !.code = isoCode]
    ELSE [NoTooltipHtml EXCEPT !.kind = "value",
                               !.country = data[IF e = 0 THEN 1 ELSE e].country,
                               !.year = year, !.type = type,
                               !.value = data[IF e = 0 THEN 1 ELSE e].value]

renderTooltip(data, e, isoCode, year, type) ==
    IF e = 0
    THEN [NoTooltipHtml EXCEPT !.kind = "nodata", !.text = "No data available",
                               !.code = isoCode]
    ELSE [NoTooltipHtml EXCEPT !.kind = "value", !.country = data[e].country,
                               !.year = year, !.type = type,
                               !.value = data[e].value]

\* what the mouseenter handler of a path puts into the tooltip
TooltipFor(id, data, year, type) ==
    LET iso3     == IF IdFalsy(id) THEN [k |-> "null", s |-> <<>>]
                    ELSE getIso3FromNumeric(id)
        emission == IF iso3.k = "null" THEN 0 ELSE MapGet(data, iso3)
        isoCode  == IF iso3.k # "null" THEN iso3.s
                    ELSE IF id.t = "undefined" THEN <<"u", "n", "k", "n", "o", "w", "n">>
                    ELSE StringOf(id)
    IN  renderTooltip(data, emission, isoCode, year, type)

NoMap ==
    [kind |-> "none", w |-> 0, h |-> 0, year |-> Null, type |-> "",
     data |-> <<>>, maxValue |-> Null, minValue |-> Null, paths |-> <<>>,
     legendUnit |-> ""]

NoTooltip == [exists |-> FALSE, opacity |-> 0, html |-> NoTooltipHtml,
              left |-> 0, top |-> 0]

\* const legendUnit = emissionType === "perCapita" ? "t/cap" : "Mt"
legendUnit(type) == IF type = "perCapita" THEN "t/cap" ELSE "Mt"

\* the container after the draw effect of the map page ran its body
drawMap(topo, emData, year, type, sz) ==
    LET data     == emissionDataMap(emData, year, type)
        maxValue == maxValueOf(data)
    IN  [kind     |-> "map", w |-> sz.width, h |-> sz.height,
         year     |-> year, type |-> type, data |-> data,
         maxValue |-> maxValue, minValue |-> Num(0),
         paths    |-> [i \in 1..Len(topo.features) |->
                         [id     |-> topo.features[i],
                          fill   |-> FeatureFill(topo.features[i], data, maxValue),
                          stroke |-> "default"]],
         legendUnit |-> renderColorLegend(maxValue, legendUnit(type)).unit]

MapDrawGuard ==
    /\ mapSize.width # 0 /\ mapSize.height # 0
    /\ ~(mapEmLoading \/ topology.k = "null")

----------------------------------------------------------------------------
(* The map page as a state machine: the fetches resolve together, the        *)
(* container is resized, the user picks an emission type or a year and moves *)
(* the pointer over the countries; the draw effect runs before the next      *)
(* event is handled.                                                         *)

rowAUT2021 ==
    EmRow(<<"A", "U", "T">>, <<"A", "u", "s", "t", "r", "i", "a">>, <<"2", "0", "2", "1">>,
          <<"7">>, <<"-", "1">>, <<"5">>, <<"2">>,
          <<"0">>, <<"0">>, <<"1">>, <<"9">>)

\* the emissions files the map page may be served
MapEmCsvs ==
    { <<rowDEU2021, rowDEU1950, rowFRA2020, rowAUT2021, rowWLD2021>>,
      <<rowWLD2021, rowFRA2020, rowWLD2020>>,
      <<>> }

\* the features of the world atlas the page may be served: without id, with
\* a zero-padded code, with codes of the table, with a code the table lacks
MapTopologies ==
    { <<NoId, StrId(<<"0", "4", "0">>), StrId(<<"2", "5", "0">>),
        StrId(<<"2", "7", "6">>), StrId(<<"9", "9", "9">>), NumId(0),
        NumId(250)>> }

MapSizes == { [width |-> 800, height |-> 0], [width |-> 800, height |-> 600] }

MapYears == {1950, 2020, 2021}

\* Math.max(1950, d3.min(allYears) ?? 1950) and d3.max(allYears) ?? 2021
yearRange(data) ==
    LET allYears == UNION {{data[c].points[i].year.v :
                               i \in 1..Len(data[c].points)} : c \in 1..Len(data)}
    IN  IF Len(data) = 0 \/ allYears = {}
        THEN [min |-> 1950, max |-> 2021]
        ELSE [min |-> IF (CHOOSE y \in allYears : \A z \in allYears : y <= z) > 1950
                      THEN CHOOSE y \in allYears : \A z \in allYears : y <= z
                      ELSE 1950,
              max |-> CHOOSE y \in allYears : \A z \in allYears : y >= z]

InitMap ==
    /\ mapEmLoading = TRUE /\ mapEmissionsData = <<>>
    /\ topology = [k |-> "null", features |-> <<>>]
    /\ mapSelectedYear = Num(2021) /\ emissionType = "perCapita"
    /\ mapSize = [width |-> 0, height |-> 0]
    /\ mapDrawPending = TRUE
    /\ mapDom = NoMap /\ tooltip = NoTooltip /\ hovered = 0
    /\ IdleLoad /\ IdleShares /\ IdleIndex /\ IdleChart /\ IdleIso

\* Promise.all([loadEmissions(), loadWorldTopology()]).then(...)
ResolveMap ==
    /\ ~mapDrawPending /\ mapEmLoading
    /\ \E csv \in MapEmCsvs : mapEmissionsData' = loadEmissions(csv)
    /\ \E f \in MapTopologies : topology' = [k |-> "topology", features |-> f]
    /\ mapEmLoading' = FALSE
    /\ mapDrawPending' = TRUE
    /\ UNCHANGED <<mapSelectedYear, emissionType, mapSize, mapDom, tooltip,
                   hovered, OutsideMap>>

\* the ResizeObserver of the map container
ResizeMap(s) ==
    /\ ~mapDrawPending
    /\ mapSize' = s
    /\ mapDrawPending' = TRUE
    /\ UNCHANGED <<mapEmLoading, mapEmissionsData, topology, mapSelectedYear,
                   emissionType, mapDom, tooltip, hovered, OutsideMap>>

\* onClick of an emission type button
SetEmissionType(t) ==
    /\ ~mapDrawPending /\ t # emissionType
    /\ emissionType' = t
    /\ mapDrawPending' = TRUE
    /\ UNCHANGED <<mapEmLoading, mapEmissionsData, topology, mapSelectedYear,
                   mapSize, mapDom, tooltip, hovered, OutsideMap>>

\* onChange of the year slider, whose range is yearRange
SetSelectedYear(y) ==
    /\ ~mapDrawPending /\ Num(y) # mapSelectedYear
    /\ yearRange(mapEmissionsData).min <= y /\ y <= yearRange(mapEmissionsData).max
    /\ mapSelectedYear' = Num(y)
    /\ mapDrawPending' = TRUE
    /\ UNCHANGED <<mapEmLoading, mapEmissionsData, topology, emissionType,
                   mapSize, mapDom, tooltip, hovered, OutsideMap>>

\* the draw effect of the map page: the container is emptied, the paths and
\* a new tooltip element are created
MapDrawEffect ==
    /\ mapDrawPending
    /\ mapDrawPending' = FALSE
    /\ IF MapDrawGuard
       THEN /\ mapDom' = drawMap(topology, mapEmissionsData, mapSelectedYear,
                                 emissionType, mapSize)
            /\ tooltip' = [NoTooltip EXCEPT !.exists = TRUE]
            /\ hovered' = 0
       ELSE UNCHANGED <<mapDom, tooltip, hovered>>
    /\ UNCHANGED <<mapEmLoading, mapEmissionsData, topology, mapSelectedYear,
                   emissionType, mapSize, OutsideMap>>

\* mouseenter on the path of feature i
MouseEnter(i) ==
    /\ ~mapDrawPending /\ mapDom.kind = "map" /\ hovered = 0
    /\ i \in 1..Len(mapDom.paths)
    /\ hovered' = i
    /\ IF tooltip.exists
       THEN /\ mapDom' = [mapDom EXCEPT !.paths[i].stroke = "highlight"]
            /\ tooltip' = [tooltip EXCEPT
                 !.opacity = 1,
                 !.html = TooltipFor(mapDom.paths[i].id, mapDom.data,
                                     mapDom.year, mapDom.type)]
       ELSE UNCHANGED <<mapDom, tooltip>>
    /\ UNCHANGED <<mapEmLoading, mapEmissionsData, topology, mapSelectedYear,
                   emissionType, mapSize, mapDrawPending, OutsideMap>>

\* mousemove over the hovered path; the container's rectangle starts at rect
MouseMove(x, y, rect) ==
    /\ ~mapDrawPending /\ hovered # 0
    /\ IF tooltip.exists
       THEN tooltip' = [tooltip EXCEPT !.left = x - rect + 16,
                                       !.top = y - rect + 16]
       ELSE UNCHANGED tooltip
    /\ UNCHANGED <<mapEmLoading, mapEmissionsData, topology, mapSelectedYear,
                   emissionType, mapSize, mapDrawPending, mapDom, hovered,
                   OutsideMap>>

MouseLeave_keepOutline ==
    /\ ~mapDrawPending /\ hovered # 0
    /\ hovered' = 0
    /\ IF tooltip.exists
       THEN tooltip' = [tooltip EXCEPT !.opacity = 0]
       ELSE UNCHANGED tooltip
    /\ UNCHANGED <<mapEmLoading, mapEmissionsData, topology, mapSelectedYear,
                   emissionType, mapSize, mapDrawPending, mapDom, OutsideMap>>

\* mouseleave of the hovered path
MouseLeave ==
    /\ ~mapDrawPending /\ hovered # 0
    /\ hovered' = 0
    /\ IF tooltip.exists
       THEN /\ mapDom' = [mapDom EXCEPT !.paths[hovered].stroke = "default"]
            /\ tooltip' = [tooltip EXCEPT !.opacity = 0]
       ELSE UNCHANGED <<mapDom, tooltip>>
    /\ UNCHANGED <<mapEmLoading, mapEmissionsData, topology, mapSelectedYear,
                   emissionType, mapSize, mapDrawPending, OutsideMap>>

NextMap ==
    \/ ResolveMap
    \/ \E s \in MapSizes : ResizeMap(s)
    \/ \E t \in EMISSION_TYPES : SetEmissionType(t)
    \/ \E y \in MapYears : SetSelectedYear(y)
    \/ MapDrawEffect
    \/ \E i \in 1..7 : MouseEnter(i)
    \/ \E x \in {40, 200} : \E rect \in {32} : MouseMove(x, x + 60, rect)
    \/ MouseLeave

SpecMap == InitMap /\ [][NextMap]_vars

----------------------------------------------------------------------------
(* Properties of the map page.                                               *)

\* the id is the text of a number (or a number)
IdIsNumeric(id) ==
    \/ id.t = "number"
    \/ id.t = "string" /\ id.s # <<>> /\ \A i \in 1..Len(id.s) : id.s[i] \in Digits

IdValue(id) == IF id.t = "number" THEN id.n ELSE DigitsValue(id.s)

\* the feature has an id, the table pairs the id's number with an alpha-3
\* code, and a series with that code, not an excluded aggregate, has a point
\* for the year
FeatureHasEntry(id, year) ==
    /\ IdIsNumeric(id)
    /\ \E c \in 1..Len(mapEmissionsData) :
         /\ mapEmissionsData[c].country \notin EXCLUDED_ENTITIES
         /\ \E i \in 1..Len(mapEmissionsData[c].points) :
              mapEmissionsData[c].points[i].year = year
         /\ <<DigitsOf(IdValue(id)), mapEmissionsData[c].iso3>>
              \in ISO_NUMERIC_TO_ALPHA3

\* C8: a feature without id, without alpha-3 mapping or without an entry for
\* the selected year is filled with the colour of value 0 and, hovered, gets
\* the "No data available" tooltip (renderTooltip with a null emission); a
\* feature with an entry never gets that tooltip.
C8_NoDataFallback ==
    mapDom.kind = "map" =>
      \A i \in 1..Len(mapDom.paths) :
        /\ ~FeatureHasEntry(mapDom.paths[i].id, mapDom.year)
             => mapDom.paths[i].fill = Rat(0, 1)
        /\ hovered = i =>
             /\ tooltip.opacity = 1
             /\ (tooltip.html.kind = "nodata"
                   <=> ~FeatureHasEntry(mapDom.paths[i].id, mapDom.year))
             /\ tooltip.html.kind = "nodata"
                   => tooltip.html.text = "No data available"

\* the pointer is over a country whose alpha-3 code has a series in the data
\* but no point for the selected year: it is pale and has the no-data tooltip
C8_Witness ==
    /\ mapDom.kind = "map" /\ hovered # 0
    /\ tooltip.html.kind = "nodata"
    /\ mapDom.paths[hovered].fill = Rat(0, 1)
    /\ \E c \in 1..Len(mapEmissionsData) :
         /\ getIso3FromNumeric(mapDom.paths[hovered].id).s = mapEmissionsData[c].iso3
         /\ FindYear(mapEmissionsData[c].points, mapDom.year) = 0

\* the paths drawn with the highlighted outline
HighlightedPaths ==
    { i \in 1..Len(mapDom.paths) : mapDom.paths[i].stroke = "highlight" }

\* C14: with every mouseenter followed by its mouseleave before the next
\* mouseenter, the tooltip has opacity 1 exactly while the pointer is over a
\* country, the only path with the highlighted outline is the hovered one,
\* mouseleave restores the default outline and hides the tooltip, and
\* mousemove changes nothing but the position of the tooltip.
C14_HoverTooltip ==
    /\ []((tooltip.opacity = 1 <=> hovered # 0)
          /\ HighlightedPaths = (IF hovered = 0 THEN {} ELSE {hovered}))
    /\ [][MouseLeave => /\ mapDom'.paths[hovered].stroke = "default"
                        /\ HighlightedPaths' = {}
                        /\ tooltip'.opacity = 0]_vars
    /\ [][(\E x \in {40, 200} : MouseMove(x, x + 60, 32))
            => /\ mapDom' = mapDom /\ hovered' = hovered
               /\ tooltip' = [tooltip EXCEPT !.left = tooltip'.left,
                                             !.top = tooltip'.top]]_vars

\* the pointer has entered a country, moved and left it again: the tooltip
\* keeps its content and position and is hidden
C14_Witness ==
    /\ mapDom.kind = "map" /\ hovered = 0
    /\ tooltip.exists /\ tooltip.opacity = 0
    /\ tooltip.html # NoTooltipHtml /\ tooltip.left # 0
    /\ HighlightedPaths = {}

\* the strictly positive values of the non-excluded entries of the drawn map
PositiveValues ==
    { mapDom.data[e].value.v :
        e \in { f \in 1..Len(mapDom.data) :
                  /\ mapDom.data[f].country \notin EXCLUDED_ENTITIES
                  /\ mapDom.data[f].value.v > 0 } }

\* the entries of the drawn map whose alpha-3 code the table pairs with the
\* number of the id
EntriesOf(id) ==
    IF ~IdIsNumeric(id) THEN {}
    ELSE { e \in 1..Len(mapDom.data) :
             <<DigitsOf(IdValue(id)), mapDom.data[e].iso3>> \in ISO_NUMERIC_TO_ALPHA3 }

\* the place of value v between 0 and the maximum m, clamped
ClampedFraction(v, m) ==
    IF v <= 0 THEN Rat(0, 1) ELSE IF v >= m THEN Rat(1, 1) ELSE Rat(v, m)

\* C18: choroplethMap returns minValue 0 and as maxValue the largest strictly
\* positive value of the non-excluded entries, or 1 without such an entry; a
\* country with an entry is filled with the clamped scale over [0, maxValue]
\* at max(0, value): a negative value gets the colour of 0 and the country
\* holding maxValue the darkest colour.
C18_ColourScale ==
    mapDom.kind = "map" =>
      /\ mapDom.minValue = Num(0)
      /\ mapDom.maxValue = IF PositiveValues = {} THEN Num(1)
                           ELSE Num(LargestOf(PositiveValues))
      /\ \A i \in 1..Len(mapDom.paths) : \A e \in EntriesOf(mapDom.paths[i].id) :
           /\ mapDom.paths[i].fill
                = ClampedFraction(mapDom.data[e].value.v, mapDom.maxValue.v)
           /\ mapDom.data[e].value.v <= 0 => mapDom.paths[i].fill = Rat(0, 1)
           /\ mapDom.data[e].value = mapDom.maxValue
                => mapDom.paths[i].fill = Rat(1, 1)

\* a map with a country of negative value, drawn like 0, a country between 0
\* and the maximum, and the country holding the maximum
C18_Witness ==
    /\ mapDom.kind = "map"
    /\ \E i \in 1..Len(mapDom.paths) : \E e \in EntriesOf(mapDom.paths[i].id) :
         mapDom.data[e].value.v < 0 /\ mapDom.paths[i].fill = Rat(0, 1)
    /\ \E i \in 1..Len(mapDom.paths) : \E e \in EntriesOf(mapDom.paths[i].id) :
         mapDom.data[e].value = mapDom.maxValue /\ mapDom.paths[i].fill = Rat(1, 1)

\* a map none of whose entries is positive: maxValue is 1
C18_WitnessDefault ==
    /\ mapDom.kind = "map" /\ mapDom.data # <<>>
    /\ PositiveValues = {} /\ mapDom.maxValue = Num(1)

\* the Map the page holds in the current state
CurrentDataMap == emissionDataMap(mapEmissionsData, mapSelectedYear, emissionType)

\* the series that are not excluded aggregates and have a point for the
\* selected year
SeriesWithPoint ==
    { c \in 1..Len(mapEmissionsData) :
        /\ mapEmissionsData[c].country \notin EXCLUDED_ENTITIES
        /\ \E i \in 1..Len(mapEmissionsData[c].points) :
             mapEmissionsData[c].points[i].year = mapSelectedYear }

\* the field of the series' first point for the selected year that the
\* emission type names
FieldOfType(c) ==
    LET pts == mapEmissionsData[c].points
        i   == CHOOSE j \in 1..Len(pts) :
                 /\ pts[j].year = mapSelectedYear
                 /\ \A h \in 1..(j - 1) : pts[h].year # mapSelectedYear
    IN  IF emissionType = "perCapita" THEN pts[i].perCapita
        ELSE IF emissionType = "coal" THEN pts[i].coal
        ELSE IF emissionType = "oil" THEN pts[i].oil
        ELSE IF emissionType = "gas" THEN pts[i].gas
        ELSE pts[i].total

\* C19: for every selected year and emission type emissionDataMap has an
\* entry for an ISO3 code exactly when a series with that code, not an
\* excluded aggregate, has a point for the year; the entry's value is the
\* point's field for the type; no excluded aggregate is in the map, in the
\* statistics or behind the maximum of the colour scale.
C19_DataMapEntries ==
    /\ { CurrentDataMap[e].iso3 : e \in 1..Len(CurrentDataMap) }
         = { mapEmissionsData[c].iso3 : c \in SeriesWithPoint }
    /\ Len(CurrentDataMap) = Cardinality(SeriesWithPoint)
    /\ \A e \in 1..Len(CurrentDataMap) : \E c \in SeriesWithPoint :
         /\ CurrentDataMap[e].iso3 = mapEmissionsData[c].iso3
         /\ CurrentDataMap[e].country = mapEmissionsData[c].country
         /\ CurrentDataMap[e].value = FieldOfType(c)
    /\ \A e \in 1..Len(CurrentDataMap) :
         CurrentDataMap[e].country \notin EXCLUDED_ENTITIES
    /\ currentYearStats(CurrentDataMap).topCountry \notin EXCLUDED_ENTITIES
    /\ \A s \in {currentYearStats(CurrentDataMap).max,
                 currentYearStats(CurrentDataMap).min,
                 maxValueOf(CurrentDataMap)} :
         \/ \E c \in SeriesWithPoint : s = FieldOfType(c)
         \/ SeriesWithPoint = {} \/ \A c \in SeriesWithPoint : FieldOfType(c).v <= 0
    /\ MapDrawGuard /\ ~mapDrawPending =>
         /\ mapDom.kind = "map" /\ mapDom.data = CurrentDataMap
         /\ mapDom.maxValue = maxValueOf(CurrentDataMap)

\* the World series has a point for the selected year with a value above
\* that of every country; the drawn map and the statistics do not show it
C19_Witness ==
    /\ mapDom.kind = "map" /\ ~mapDrawPending /\ mapSize.height # 0
    /\ CurrentDataMap # <<>>
    /\ \E c \in 1..Len(mapEmissionsData) :
         /\ mapEmissionsData[c].country \in EXCLUDED_ENTITIES
         /\ FindYear(mapEmissionsData[c].points, mapSelectedYear) # 0
         /\ getEmissionValue(
              mapEmissionsData[c].points[FindYear(mapEmissionsData[c].points,
                                                  mapSelectedYear)],
              emissionType).v > mapDom.maxValue.v
         /\ mapDom.maxValue = currentYearStats(CurrentDataMap).max

\* C21: the unit label next to the colour legend is "t/cap" when the emission
\* type is perCapita and "Mt" for every other type.
C21_LegendUnit ==
    mapDom.kind = "map" =>
      mapDom.legendUnit = (IF mapDom.type = "perCapita" THEN "t/cap" ELSE "Mt")

\* C21 for the emission types other than perCapita
C21_UnlessPerCapita ==
    mapDom.kind = "map" /\ mapDom.type # "perCapita" => mapDom.legendUnit = "Mt"

\* the map of the per-capita values is drawn with the unit label "Mt"
C21_WrongUnit ==
    /\ mapDom.kind = "map" /\ ~mapDrawPending
    /\ emissionType = "perCapita" /\ mapDom.type = "perCapita"
    /\ legendUnit(emissionType) = "t/cap"
    /\ mapDom.legendUnit = "Mt"

\* the map drawn is that of the current year, type and data
MapIsCurrent == MapDrawGuard /\ ~mapDrawPending /\ mapDom.kind = "map"

\* the statistics panel shows the maximum of the colour scale and, as top
\* country, the first entry holding it
StatsMatchScale ==
    LET stats == currentYearStats(CurrentDataMap) IN
    /\ stats.max = mapDom.maxValue
    /\ \E i \in 1..Len(CurrentDataMap) :
         /\ CurrentDataMap[i].country = stats.topCountry
         /\ CurrentDataMap[i].value = mapDom.maxValue
         /\ \A j \in 1..(i - 1) : CurrentDataMap[j].value # mapDom.maxValue

\* C22: for every selected year and emission type the Max of the statistics
\* panel equals the maxValue at the top of the colour scale and legend, and
\* the Top country is the first country in data order whose value is that
\* maximum.
C22_StatsMatchScale == MapIsCurrent => StatsMatchScale

\* C22 for maps with at least one value above 0
C22_WhenPositive == MapIsCurrent /\ PositiveValues # {} => StatsMatchScale

\* a map with entries none of which is positive: the panel shows Max 0 and
\* no top country, the scale and the legend end at 1
C22_Mismatch ==
    /\ MapIsCurrent /\ CurrentDataMap # <<>>
    /\ currentYearStats(CurrentDataMap).max = Num(0)
    /\ currentYearStats(CurrentDataMap).topCountry = <<>>
    /\ mapDom.maxValue = Num(1)
    /\ renderColorLegend(mapDom.maxValue, legendUnit(emissionType)).max = Num(1)

\* a map with two positive values: panel and scale agree
C22_Agree ==
    /\ MapIsCurrent /\ Cardinality(PositiveValues) >= 2
    /\ StatsMatchScale

----------------------------------------------------------------------------
(* getIso3FromNumeric applied to an id.                                      *)

\* largest number passed as an id (the largest key of the table is 894)
MaxIsoId == 900

ZeroPrefixes == { <<>>, <<"0">>, <<"0", "0">> }

\* numbers, their texts with up to two leading zeros, the names every object
\* inherits, and texts that are no number
IsoIdPool ==
    { NumId(n) : n \in 0..MaxIsoId }
      \cup { StrId(z \o DigitsOf(n)) : n \in 0..MaxIsoId, z \in ZeroPrefixes }
      \cup { StrId(key) : key \in ObjectPrototypeKeys }
      \cup { StrId(<<>>), StrId(<<"x">>), StrId(<<"A", "F", "G">>) }

InitIso ==
    /\ isoArg \in IsoIdPool
    /\ isoOut = [k |-> "null", s |-> <<>>]
    /\ isoDone = FALSE
    /\ IdleLoad /\ IdleShares /\ IdleIndex /\ IdleMap /\ IdleChart

ApplyIso ==
    /\ ~isoDone
    /\ isoOut' = getIso3FromNumeric(isoArg)
    /\ isoDone' = TRUE
    /\ UNCHANGED <<isoArg, OutsideIso>>

NextIso == ApplyIso

SpecIso == InitIso /\ [][NextIso]_vars

\* the alpha-3 codes the table gives for the number of a numeric id
TableCodesOf(id) ==
    IF ~IdIsNumeric(id) THEN {}
    ELSE { e[2] : e \in { f \in ISO_NUMERIC_TO_ALPHA3 : f[1] = DigitsOf(IdValue(id)) } }

\* the number and its texts with leading zeros give what the id gave
SameForAllForms ==
    IdIsNumeric(isoArg) =>
      /\ getIso3FromNumeric(NumId(IdValue(isoArg))) = isoOut
      /\ \A z \in ZeroPrefixes :
           getIso3FromNumeric(StrId(z \o DigitsOf(IdValue(isoArg)))) = isoOut

TableCodeReturned ==
    \A code \in TableCodesOf(isoArg) : isoOut = [k |-> "string", s |-> code]

\* C20 as stated: a numeric id and its text with any number of leading zeros
\* give the same result, every numeric code of the table gives the table's
\* alpha-3 code, and every id that is not in the table gives null.
C20_AllIds ==
    isoDone =>
      /\ SameForAllForms
      /\ TableCodeReturned
      /\ TableCodesOf(isoArg) = {} => isoOut.k = "null"

\* C20 for ids that are not the name of a property every object inherits
C20_UnlessInherited ==
    isoDone =>
      /\ SameForAllForms
      /\ TableCodeReturned
      /\ TableCodesOf(isoArg) = {} /\ isoArg.s \notin ObjectPrototypeKeys
           => isoOut.k = "null"

\* an id that is not in the table has not given null
C20_Inherited ==
    /\ isoDone /\ isoArg = StrId(<<"c", "o", "n", "s", "t", "r", "u", "c", "t", "o", "r">>)
    /\ isoOut.k = "object"

\* "004" has given AFG
C20_Padded ==
    /\ isoDone /\ isoArg = StrId(<<"0", "0", "4">>)
    /\ isoOut = [k |-> "string", s |-> <<"A", "F", "G">>]

====
